---- MODULE Spec2Model ----
(***************************************************************************)
(* Forest Flick - authoritative room server (src/server.js).               *)
(*                                                                         *)
(* One room, its lobby, its Game and its timer loop, driven by WebSocket   *)
(* messages and by the interval callback.                                  *)
(*                                                                         *)
(* Arithmetic.  The server computes in IEEE doubles; the model computes in *)
(* integers: positions in px, velocities in px/s, times in ms, angles in   *)
(* degrees.  Products that the code scales by a fraction are scaled here   *)
(* by the same fraction and truncated toward zero.                         *)
(***************************************************************************)
EXTENDS Integers, Sequences, FiniteSets, TLC

(***************************************************************************)
(* Bounds of the model.                                                    *)
(***************************************************************************)
NumSockets == 2      \* WebSocket connections that ever exist
MaxIds == 2          \* player ids randId() hands out (joins)
MaxFlicks == 2       \* accepted flicks explored per run
MaxReloads == 1      \* host_reload_map commands explored per run
MaxRound == 2        \* the round counter is explored up to this value
InputTicks == 1      \* a flick is sent within this many ticks of a turn start
AdminTicks == 0      \* joins, closes and host commands: ticks after a turn start
DashTicks == 1       \* a dash is sent within this many ticks of a turn start,
RingTicks == 1       \* or with a shockwave ring this many ticks from the player
RoomTicks == 3       \* timer callbacks explored from a lobby start
RaceTicks == 40      \* timer callbacks explored of a race of two
SoloTicks == 90      \* timer callbacks explored of a race of one, into round 2
BossTicks == 100     \* timer callbacks explored of a started boss stage
ReloadTicks == 30    \* timer callbacks explored of a boss stage that is reloaded
SettleFlicks == 3    \* accepted flicks explored of a race of one run to a turn clock
SettleTicks == 580   \* timer callbacks explored of a race of one run to a turn clock
MaxHits == 2         \* damage events applied to one boss
StunFlicks == 2      \* accepted flicks explored of the totem_jaguar stage
StunTicks == 90      \* timer callbacks explored of the totem_jaguar stage
LateTicks == 2       \* a late flick is sent with at most this many ticks on the clock
PhotoFlicks == 4     \* accepted flicks explored of a race of two frogs
RoundPlayers == 3    \* players of the games whose rounds are rotated
RoundSteps == 9      \* turn ends, arrivals and new rounds explored of such a game
CloseTicks == 1      \* a socket closes within this many ticks of a turn start
LegX == 200          \* a frog left of this column is still on its first leg
PhotoTicks == 570    \* timer callbacks explored of a race of two frogs
PayloadFlicks == 2   \* accepted flicks explored of a race of one with raw payloads
PayloadTicks == 520  \* timer callbacks explored of a race of one with raw payloads
CrabFlicks == 3      \* accepted flicks explored of the armored_crab stage
CrabTicks == 560     \* timer callbacks explored of the armored_crab stage
CrabPlayers == 3     \* players of the armored_crab stage
CrabCloses == 1      \* sockets that close during the armored_crab stage
RestFlicks == 2      \* accepted flicks explored before a boss turn runs to its end
RestTicks == 30      \* timer callbacks explored before a boss turn runs to its end
WindowTicks == 60    \* timer callbacks explored before a stun window runs to its end
HpStrikes == 19      \* strikes and stone hits explored of a boss worn down to nothing
HpTicks == 44        \* timer callbacks explored of a boss worn down to nothing
SkipTicks == 12      \* timer callbacks explored of a race of three with closes
OverlapSpan == 3     \* width and height of the rectangles of the overlap test, at most
OverlapReach == 3    \* radius of the circles of the overlap test, at most

(***************************************************************************)
(* Integer helpers.                                                        *)
(***************************************************************************)
Abs(a) == IF a < 0 THEN -a ELSE a
Min(a, b) == IF a < b THEN a ELSE b
Max(a, b) == IF a > b THEN a ELSE b
Sgn(a) == IF a < 0 THEN -1 ELSE IF a > 0 THEN 1 ELSE 0

\* a / b for b > 0, truncated toward zero (the double, cut to an integer)
TDiv(a, b) == IF a >= 0 THEN a \div b ELSE -((-a) \div b)

\* a / b for b > 0, rounded away from zero
UDiv(a, b) == IF a >= 0 THEN (a + b - 1) \div b ELSE -(((-a) + b - 1) \div b)

RECURSIVE SqrtSearch(_, _, _)
SqrtSearch(n, lo, hi) ==
    IF lo >= hi THEN lo
    ELSE LET mid == (lo + hi + 1) \div 2
         IN  IF mid * mid <= n THEN SqrtSearch(n, mid, hi)
             ELSE SqrtSearch(n, lo, mid - 1)

\* floor(sqrt(n)) for 0 <= n < 2^31
ISqrt(n) == SqrtSearch(n, 0, 46340)

\* Math.hypot(a, b) in tenths (floor), for a*a + b*b < 2*10^7
Hypot10(a, b) == ISqrt(100 * (a * a + b * b))

\* src/server.js:32
clamp(v, a, b) == Max(a, Min(b, v))

(***************************************************************************)
(* World and tuning constants of the server.                               *)
(***************************************************************************)
W == 960
H == 540
PlayerR == 18
BossR == 44
CoinR == 10
ItemR == 12
StoneR == 16
TrapR == 14
SpawnX == 110
TurnMs == 25000
MaxSpeed == 1500
StoppedSpeed == 6
SnapSpeed == 2
DashPower == 520
DashWindowMs == 180
BossKnock == 220
FlickLimit == 2000
RespawnMargin == 220
RoundEndDelayMs == 2000
SnapEveryMs == 50
MaxSliceMs == 50
MaxPlayers == 4

\* src/server.js:98
bounds == [x |-> 20, y |-> 20, w |-> 920, h |-> 500]

Rect(x, y, w, h) == [x |-> x, y |-> y, w |-> w, h |-> h]
Pt(x, y) == [x |-> x, y |-> y]

\* src/server.js:176-184
baseBounds ==
    << Rect(bounds.x, bounds.y, bounds.w, 12),
       Rect(bounds.x, bounds.y + bounds.h - 12, bounds.w, 12),
       Rect(bounds.x, bounds.y, 12, bounds.h),
       Rect(bounds.x + bounds.w - 12, bounds.y, 12, bounds.h) >>

\* src/server.js:191-196
RACE_LEVELS == << "maze_long_1", "maze_long_2", "maze_long_3", "maze_long_4" >>

IndexOf(s, e) == IF \E i \in 1..Len(s) : s[i] = e
                 THEN CHOOSE i \in 1..Len(s) : s[i] = e /\ \A j \in 1..(i-1) : s[j] # e
                 ELSE 0

(***************************************************************************)
(* Geometry / physics kernel.                                              *)
(***************************************************************************)
\* the same test with the comparison made strict: touching no longer counts
circleRectCollideStrict(cx, cy, cr, rx, ry, rw, rh) ==
    LET nx == clamp(cx, rx, rx + rw)
        ny == clamp(cy, ry, ry + rh)
        dx == cx - nx
        dy == cy - ny
    IN  dx * dx + dy * dy < cr * cr

\* src/server.js:561-567
circleRectCollide(cx, cy, cr, rx, ry, rw, rh) ==
    LET nx == clamp(cx, rx, rx + rw)
        ny == clamp(cy, ry, ry + rh)
        dx == cx - nx
        dy == cy - ny
    IN  dx * dx + dy * dy <= cr * cr

\* src/server.js:569-597.  p has x, y, vx, vy, r, bounceKeep (percent).
\* dist and the unit normal are kept to 1/1000; the push-out is rounded away
\* from the wall so that the circle does not stay inside it.
PushOut(p, dx, dy, dist) ==
    LET overlap == p.r * 1000 - dist
        ux == TDiv(dx * 1000000, dist)
        uy == TDiv(dy * 1000000, dist)
        dot == TDiv(p.vx * ux + p.vy * uy, 1000)
        rvx == p.vx - TDiv(2 * dot * ux, 1000)
        rvy == p.vy - TDiv(2 * dot * uy, 1000)
    IN  IF overlap > 0
        THEN [p EXCEPT !.x = p.x + UDiv(ux * overlap, 1000000),
                       !.y = p.y + UDiv(uy * overlap, 1000000),
                       !.vx = TDiv(TDiv(rvx * p.bounceKeep, 100) * 90, 100),
                       !.vy = TDiv(TDiv(rvy * p.bounceKeep, 100) * 90, 100)]
        ELSE p

resolveCircleRect(p, w) ==
    LET dx == p.x - clamp(p.x, w.x, w.x + w.w)
        dy == p.y - clamp(p.y, w.y, w.y + w.h)
    IN  IF dx = 0 /\ dy = 0 THEN PushOut(p, 0, -1, 1000)
        ELSE PushOut(p, dx, dy, ISqrt(1000000 * (dx * dx + dy * dy)))

\* the square of Math.hypot(p.vx, p.vy)
Speed2(p) == p.vx * p.vx + p.vy * p.vy

\* the velocity scaled by maxSp / sp
Rescale(p, maxSp, sp) ==
    [p EXCEPT !.vx = TDiv(p.vx * maxSp, sp), !.vy = TDiv(p.vy * maxSp, sp)]

\* a clamp that never rescales
clampSpeedOff(p, maxSp) == p

\* p.nan is the set of the fields x, y, vx, vy of a player p that hold NaN;
\* the integer of such a field is 0 and has no meaning.  The boss and the
\* stones have no such set: no input reaches their fields.
NaNFields(p) == IF "nan" \in DOMAIN p THEN p.nan ELSE {}
NaNSpeed(p) == NaNFields(p) \cap {"vx", "vy"} # {}
NaNPlace(p) == NaNFields(p) \cap {"x", "y"} # {}

\* src/server.js:599-605.  Math.hypot of a NaN is NaN, and NaN > maxSp is
\* false.
clampSpeed(p, maxSp) ==
    IF NaNSpeed(p) THEN p
    ELSE IF Speed2(p) > maxSp * maxSp THEN Rescale(p, maxSp, ISqrt(Speed2(p)) + 1)
    ELSE p

\* src/server.js:614-616.  NaN < 6 is false.
isStopped(p) == ~NaNSpeed(p) /\ Speed2(p) < StoppedSpeed * StoppedSpeed

\* src/server.js:618-621
applyPadBoost(p) == [p EXCEPT !.vx = TDiv(p.vx * 122, 100), !.vy = TDiv(p.vy * 122, 100)]

RECURSIVE Pow985(_)
\* 0.985^n to 1/10000
Pow985(n) == IF n <= 0 THEN 10000 ELSE TDiv(Pow985(n - 1) * 985, 1000)

\* Math.pow(friction, dt * 60), friction 0.985 (src/server.js:154, 796), to 1/10000
FrictionPow(dt) == Pow985((dt * 60) \div 1000)

\* src/server.js:607-612, in degrees
RECURSIVE angleDown(_)
angleDown(d) == IF d > 180 THEN angleDown(d - 360) ELSE d
RECURSIVE angleUp(_)
angleUp(d) == IF d < -180 THEN angleUp(d + 360) ELSE d
angleDiff(a, b) == angleUp(angleDown(a - b))

\* Math.atan2(dy, dx) in degrees, -180 < result <= 180 (0 for dx = dy = 0).
\* atan z for 0 <= z <= 1 is 45 z + 15.64 z (1 - z) to within a third of a degree.
AtanUnit(z1000) == TDiv(45 * z1000 + TDiv(1564 * z1000 * (1000 - z1000), 100000) + 500, 1000)
Atan2Deg(dy, dx) ==
    LET ax == Abs(dx)
        ay == Abs(dy)
        a == IF ax = 0 /\ ay = 0 THEN 0
             ELSE IF ax >= ay THEN AtanUnit(TDiv(ay * 1000, ax))
             ELSE 90 - AtanUnit(TDiv(ax * 1000, ay))
    IN  IF dx >= 0 THEN (IF dy >= 0 THEN a ELSE -a)
        ELSE (IF dy >= 0 THEN 180 - a ELSE -(180 - a))

\* sin and cos of an angle in milliradians, to 1/1000 (Taylor, after reduction)
SinSmall(x) ==
    LET x2 == TDiv(x * x, 1000)
        x3 == TDiv(x2 * x, 1000)
        x5 == TDiv(x3 * x2, 1000)
        x7 == TDiv(x5 * x2, 1000)
    IN  x - TDiv(x3, 6) + TDiv(x5, 120) - TDiv(x7, 5040)
Sin1000(a) ==
    LET m == a % 6283
        h == IF m > 3141 THEN m - 6283 ELSE m
        q == IF h > 1571 THEN 3142 - h ELSE IF h < -1571 THEN -3142 - h ELSE h
    IN  SinSmall(q)
Cos1000(a) == Sin1000(a + 1571)

(***************************************************************************)
(* Stage catalog: the four race levels and the boss arena.                 *)
(***************************************************************************)
LevelNo(levelId) == IndexOf(RACE_LEVELS, levelId)

\* src/server.js:214-241, 270-289, 318-340, 369-387
MazeWalls(levelId) ==
    CASE levelId = "maze_long_1" ->
           << Rect(80, 70, 520, 20), Rect(80, 70, 20, 330), Rect(80, 380, 360, 20),
              Rect(420, 220, 20, 180), Rect(260, 220, 180, 20), Rect(260, 150, 20, 90),
              Rect(170, 140, 260, 18), Rect(170, 140, 18, 140), Rect(170, 262, 220, 18),
              Rect(372, 262, 18, 90), Rect(240, 334, 150, 18), Rect(560, 110, 18, 320),
              Rect(560, 110, 260, 18), Rect(800, 110, 18, 260), Rect(640, 200, 178, 18),
              Rect(640, 200, 18, 180), Rect(640, 360, 220, 18), Rect(500, 160, 80, 18),
              Rect(500, 300, 80, 18) >>
      [] levelId = "maze_long_2" ->
           << Rect(90, 90, 18, 340), Rect(90, 90, 300, 18), Rect(390, 90, 18, 220),
              Rect(170, 160, 18, 270), Rect(170, 160, 240, 18), Rect(250, 240, 158, 18),
              Rect(250, 240, 18, 190), Rect(250, 410, 250, 18), Rect(480, 70, 18, 420),
              Rect(480, 70, 360, 18), Rect(820, 70, 18, 240), Rect(590, 150, 250, 18),
              Rect(590, 150, 18, 260), Rect(610, 392, 230, 18), Rect(720, 230, 18, 180) >>
      [] levelId = "maze_long_3" ->
           << Rect(80, 90, 600, 18), Rect(80, 90, 18, 360), Rect(80, 432, 420, 18),
              Rect(482, 220, 18, 230), Rect(240, 220, 260, 18), Rect(240, 140, 18, 98),
              Rect(240, 140, 560, 18), Rect(782, 140, 18, 300), Rect(160, 160, 120, 18),
              Rect(160, 160, 18, 170), Rect(160, 312, 180, 18), Rect(320, 312, 18, 110),
              Rect(320, 404, 160, 18), Rect(560, 180, 18, 240), Rect(560, 180, 170, 18),
              Rect(712, 180, 18, 170), Rect(610, 332, 120, 18) >>
      [] levelId = "maze_long_4" ->
           << Rect(120, 80, 720, 18), Rect(120, 80, 18, 380), Rect(120, 442, 560, 18),
              Rect(662, 200, 18, 260), Rect(260, 200, 420, 18), Rect(260, 200, 18, 170),
              Rect(260, 352, 320, 18), Rect(562, 120, 18, 250), Rect(340, 120, 240, 18),
              Rect(340, 120, 18, 170), Rect(340, 272, 160, 18), Rect(740, 110, 18, 290),
              Rect(600, 110, 158, 18), Rect(600, 382, 158, 18) >>
      [] OTHER -> << >>

\* src/server.js:243, 291, 342, 389, 416-418
LevelFinish(levelId) ==
    CASE levelId = "maze_long_1" -> Rect(W - 170, 70, 110, 80)
      [] levelId = "maze_long_2" -> Rect(W - 170, 410, 110, 80)
      [] levelId = "maze_long_3" -> Rect(W - 170, 70, 110, 80)
      [] levelId = "maze_long_4" -> Rect(W - 170, 430, 110, 80)
      [] OTHER -> Rect(W - 170, 90, 110, 80)

\* src/server.js:245-248, 293-296, 344-347, 391-394
LevelPads(levelId) ==
    CASE levelId = "maze_long_1" -> << Rect(120, 430, 120, 16), Rect(690, 430, 150, 16) >>
      [] levelId = "maze_long_2" -> << Rect(120, 55, 130, 16), Rect(700, 490, 170, 16) >>
      [] levelId = "maze_long_3" -> << Rect(120, 478, 130, 16), Rect(690, 110, 150, 16) >>
      [] levelId = "maze_long_4" -> << Rect(150, 110, 130, 16), Rect(650, 478, 190, 16) >>
      [] OTHER -> << >>

\* src/server.js:250-254, 298-302, 349-353, 396-400
LevelTraps(levelId) ==
    CASE levelId = "maze_long_1" -> << Pt(330, 205), Pt(610, 260), Pt(760, 180) >>
      [] levelId = "maze_long_2" -> << Pt(320, 360), Pt(640, 300), Pt(790, 210) >>
      [] levelId = "maze_long_3" -> << Pt(360, 250), Pt(620, 250), Pt(740, 420) >>
      [] levelId = "maze_long_4" -> << Pt(500, 250), Pt(720, 250), Pt(300, 430) >>
      [] OTHER -> << >>

\* src/server.js:256-260, 304-308, 355-359, 402-406
LevelCoins(levelId) ==
    CASE levelId = "maze_long_1" ->
           << Pt(140, 105), Pt(210, 310), Pt(360, 115), Pt(520, 455),
              Pt(610, 145), Pt(740, 330), Pt(860, 250) >>
      [] levelId = "maze_long_2" ->
           << Pt(140, 450), Pt(230, 120), Pt(310, 200), Pt(420, 470),
              Pt(560, 110), Pt(680, 220), Pt(760, 470) >>
      [] levelId = "maze_long_3" ->
           << Pt(120, 130), Pt(200, 420), Pt(340, 180), Pt(470, 470),
              Pt(590, 420), Pt(740, 210), Pt(850, 470) >>
      [] levelId = "maze_long_4" ->
           << Pt(160, 470), Pt(220, 140), Pt(380, 160), Pt(520, 450),
              Pt(680, 160), Pt(820, 250), Pt(860, 470) >>
      [] OTHER -> << >>

Item(type, x, y, r) ==
    [type |-> type, x |-> x, y |-> y, r |-> r, takenBy |-> 0, vx |-> 0, vy |-> 0]

\* a coin as the stage loads it; taken counts the times its reward was paid
\* (history, not a field of the source)
Coin(c) == [x |-> c.x, y |-> c.y, r |-> CoinR, takenBy |-> 0, taken |-> 0]

\* src/server.js:262-266, 310-314, 361-365, 408-412
LevelItems(levelId) ==
    CASE levelId = "maze_long_1" ->
           << Item("dash", 230, 110, ItemR), Item("shield", 360, 455, ItemR),
              Item("magnet", 720, 145, ItemR) >>
      [] levelId = "maze_long_2" ->
           << Item("dash", 560, 455, ItemR), Item("shield", 310, 470, ItemR),
              Item("magnet", 760, 110, ItemR) >>
      [] levelId = "maze_long_3" ->
           << Item("dash", 430, 470, ItemR), Item("shield", 610, 210, ItemR),
              Item("magnet", 200, 130, ItemR) >>
      [] levelId = "maze_long_4" ->
           << Item("dash", 420, 450, ItemR), Item("shield", 820, 250, ItemR),
              Item("magnet", 220, 140, ItemR) >>
      [] OTHER -> << >>

\* src/server.js:495-499
ArenaWalls ==
    << Rect(210, 90, 18, 360), Rect(330, 130, 260, 18), Rect(330, 392, 260, 18),
       Rect(590, 130, 18, 280), Rect(430, 210, 18, 120) >>
\* src/server.js:501-504
ArenaPads == << Rect(120, 250, 120, 16), Rect(720, 250, 170, 16) >>
\* src/server.js:506-509
ArenaCoins ==
    << Pt(170, 110), Pt(170, 410), Pt(520, 110), Pt(520, 410), Pt(780, 150), Pt(780, 370) >>

\* src/server.js:440-476
BOSS_DEFS ==
    << [id |-> "armored_crab", hp |-> 12, rules |-> {"DASH_ONLY"}],
       [id |-> "spirit_owl", hp |-> 10, rules |-> {"PARRY_ONLY"}],
       [id |-> "reef_golem", hp |-> 14, rules |-> {"WEAKSPOT_CYCLE"}],
       [id |-> "storm_manta", hp |-> 14, rules |-> {"RICOCHET_REQUIRED", "WEAKSPOT_CYCLE"}],
       [id |-> "totem_jaguar", hp |-> 16, rules |-> {"STUN_THEN_PUNISH"}] >>

\* src/server.js:478-480
pickBossByIndex(i) == BOSS_DEFS[(i % Len(BOSS_DEFS)) + 1]

(***************************************************************************)
(* Entities.                                                               *)
(***************************************************************************)
NoId == 0
NoGame == [none |-> TRUE]
NoBoss == [none |-> TRUE]

\* src/server.js:740: the window of a dropped shield, ms
StunWindowMs == 2200

\* src/server.js:134-160.  bounceKeep in percent.  bounced and dashHits are
\* history: a wall bounce since the last flick, boss hp taken since the last
\* accepted dash.
makePlayer(pid, charId, x, y) ==
    [id |-> pid, charId |-> charId,
     x |-> x, y |-> y, vx |-> 0, vy |-> 0, r |-> PlayerR,
     firstLaunchAvailable |-> TRUE, dashCharges |-> 0, shield |-> FALSE, magnetT |-> 0,
     canDashThisTurn |-> FALSE, dashUsedThisTurn |-> FALSE, dashStrikeWindow |-> 0,
     score |-> 0, coins |-> 0, finished |-> FALSE,
     bounceKeep |-> IF charId = "frog" THEN 90 ELSE 78,
     bounced |-> FALSE, dashHits |-> 0, nan |-> {}]

\* spawn row of the i-th (0-based) of n players: startY + (i - n/2) * 44
SpawnY(i, n) == H \div 2 + (2 * i - n) * 22

\* src/server.js:162-174
resetRoundPerks(g) ==
    [g EXCEPT !.players = [pid \in DOMAIN g.players |->
        [g.players[pid] EXCEPT
            !.firstLaunchAvailable = TRUE,
            !.magnetT = 0,
            !.finished = FALSE,
            !.dashUsedThisTurn = FALSE,
            !.dashStrikeWindow = 0,
            !.dashCharges = IF g.players[pid].charId = "hummingbird" THEN 1 ELSE 0,
            !.shield = (g.players[pid].charId = "manicou")]]]

\* src/server.js:427-438
resetPlayersToSpawn(g) ==
    LET ids == g.turnOrder
        n == Len(ids)
        row(pid) == IndexOf(ids, pid) - 1
    IN  [g EXCEPT !.players = [pid \in DOMAIN g.players |->
            IF IndexOf(ids, pid) = 0 THEN g.players[pid]
            ELSE [g.players[pid] EXCEPT !.x = SpawnX, !.y = SpawnY(row(pid), n),
                                        !.vx = 0, !.vy = 0, !.finished = FALSE,
                                        !.nan = {}]]]

\* the reset that leaves the velocities alone
resetPlayersToSpawnKeepV(g) ==
    LET ids == g.turnOrder
        n == Len(ids)
        row(pid) == IndexOf(ids, pid) - 1
    IN  [g EXCEPT !.players = [pid \in DOMAIN g.players |->
            IF IndexOf(ids, pid) = 0 THEN g.players[pid]
            ELSE [g.players[pid] EXCEPT !.x = SpawnX, !.y = SpawnY(row(pid), n),
                                        !.finished = FALSE]]]

MapSeq(f(_), s) == [i \in 1..Len(s) |-> f(s[i])]

\* src/server.js:198-425
buildRaceLevel(g, levelId) ==
    LET g1 == [g EXCEPT !.levelId = levelId,
                        !.boss = NoBoss,
                        !.winnerId = NoId,
                        !.phase = "play",
                        !.turnState = "aim",
                        !.turnMsLeft = TurnMs,
                        !.walls = baseBounds \o MazeWalls(levelId),
                        !.pads = LevelPads(levelId),
                        !.traps = LevelTraps(levelId),
                        !.coins = MapSeq(Coin, LevelCoins(levelId)),
                        !.items = LevelItems(levelId),
                        !.finish = LevelFinish(levelId),
                        !.hasFinish = TRUE,
                        !.hint = "race"]
    IN  resetRoundPerks(resetPlayersToSpawn(g1))

\* src/server.js:482-559.  Boss position in tenths of px, t and timers in ms,
\* angles in degrees.
buildBossRound(g) ==
    LET bdef == pickBossByIndex(g.bossIndex)
        boss == [id |-> bdef.id, rules |-> bdef.rules, hp |-> bdef.hp, hpMax |-> bdef.hp,
                 x10 |-> (W * 72) \div 10, y10 |-> H * 5, r |-> BossR, t |-> 0,
                 weakAngle |-> 0, weakArc |-> 60, weakCycleS |-> 1800,
                 ring |-> [active |-> FALSE, r |-> 0, spd |-> 220, cd |-> 1200,
                           x |-> 0, y |-> 0],
                 stunnedT |-> 0,
                 shielded |-> ("STUN_THEN_PUNISH" \in bdef.rules),
                 stunHits |-> 0]
        dashItems == IF "DASH_ONLY" \in bdef.rules \/ "PARRY_ONLY" \in bdef.rules
                     THEN << Item("dash", 320, 110, ItemR), Item("dash", 320, 410, ItemR) >>
                     ELSE << >>
        stones == IF "STUN_THEN_PUNISH" \in bdef.rules
                  THEN << Item("stone", 420, 250, StoneR), Item("stone", 520, 250, StoneR) >>
                  ELSE << >>
        g1 == [g EXCEPT !.finish = Rect(0, 0, 0, 0),
                        !.hasFinish = FALSE,
                        !.walls = baseBounds \o ArenaWalls,
                        !.pads = ArenaPads,
                        !.traps = << >>,
                        !.coins = MapSeq(Coin, ArenaCoins),
                        !.items = dashItems \o stones
                                  \o << Item("shield", 320, 250, ItemR),
                                        Item("magnet", 780, 260, ItemR) >>,
                        !.phase = "play",
                        !.winnerId = NoId,
                        !.turnState = "aim",
                        !.turnMsLeft = TurnMs,
                        !.bossIndex = g.bossIndex + 1,
                        !.boss = boss,
                        !.hint = bdef.id,
                        !.toast = "appeared",
                        !.shake = 0,
                        !.shakeT = 0]
    IN  resetRoundPerks(resetPlayersToSpawn(g1))

\* src/server.js:81-132.  pkeys is the key order of game.players; endT is
\* game._endT.  launcher and dashes are history: the player whose flick
\* started the last resolving phase, and the dashes applied since that flick.
makeGame(mode, playerIds, picks) ==
    LET n == Len(playerIds)
        ids == {playerIds[i] : i \in 1..n}
        charOf(pid) == IF picks[pid] = "none" THEN "agouti" ELSE picks[pid]
        g == [mode |-> mode, round |-> 1, phase |-> "play", winnerId |-> NoId,
              turnIndex |-> 0, turnOrder |-> playerIds, turnState |-> "aim",
              turnMsLeft |-> TurnMs, activeId |-> playerIds[1],
              levelId |-> "maze_long_1", finish |-> Rect(0, 0, 0, 0), hasFinish |-> FALSE,
              walls |-> << >>, pads |-> << >>, traps |-> << >>, coins |-> << >>,
              items |-> << >>,
              players |-> [pid \in ids |->
                  makePlayer(pid, charOf(pid), SpawnX,
                             SpawnY(IndexOf(playerIds, pid) - 1, n))],
              pkeys |-> playerIds,
              boss |-> NoBoss, bossIndex |-> 0,
              hint |-> "", toast |-> "", shake |-> 0, shakeT |-> 0, endT |-> 0,
              launcher |-> NoId, dashes |-> 0]
    IN  IF mode = "race" THEN buildRaceLevel(g, g.levelId) ELSE buildBossRound(g)

(***************************************************************************)
(* Boss combat engine.                                                     *)
(***************************************************************************)
NoAngle == 999

\* the damage rule without the shield gate
bossTakeDamageNoShield(g, amount, source, hitAngle) ==
    LET boss == g.boss
        rejected ==
            \/ ("DASH_ONLY" \in boss.rules /\ source # "DASH")
            \/ ("PARRY_ONLY" \in boss.rules /\ source # "PARRY")
            \/ ("RICOCHET_REQUIRED" \in boss.rules /\ source # "RICOCHET_OK")
            \/ /\ "WEAKSPOT_CYCLE" \in boss.rules
               /\ \/ hitAngle = NoAngle
                  \/ Abs(angleDiff(hitAngle, boss.weakAngle)) * 2 > boss.weakArc
    IN  IF boss = NoBoss \/ rejected THEN g
        ELSE [g EXCEPT !.boss.hp = Max(0, boss.hp - amount),
                       !.shake = Max(g.shake, 12 + amount * 2),
                       !.shakeT = Max(g.shakeT, 180),
                       !.toast = "Boss hit!"]

\* the damage rule with every gate removed
bossTakeDamageUngated(g, amount, source, hitAngle) ==
    IF g.boss = NoBoss THEN g
    ELSE [g EXCEPT !.boss.hp = Max(0, g.boss.hp - amount),
                   !.shake = Max(g.shake, 12 + amount * 2),
                   !.shakeT = Max(g.shakeT, 180),
                   !.toast = "Boss hit!"]

\* damage that subtracts without the floor at zero
bossTakeDamageUnclamped(g, amount, source, hitAngle) ==
    LET boss == g.boss
        rejected ==
            \/ ("DASH_ONLY" \in boss.rules /\ source # "DASH")
            \/ ("PARRY_ONLY" \in boss.rules /\ source # "PARRY")
            \/ ("STUN_THEN_PUNISH" \in boss.rules /\ boss.shielded)
            \/ ("RICOCHET_REQUIRED" \in boss.rules /\ source # "RICOCHET_OK")
            \/ /\ "WEAKSPOT_CYCLE" \in boss.rules
               /\ \/ hitAngle = NoAngle
                  \/ Abs(angleDiff(hitAngle, boss.weakAngle)) * 2 > boss.weakArc
    IN  IF boss = NoBoss \/ rejected THEN g
        ELSE [g EXCEPT !.boss.hp = boss.hp - amount,
                       !.shake = Max(g.shake, 12 + amount * 2),
                       !.shakeT = Max(g.shakeT, 180),
                       !.toast = "Boss hit!"]

\* src/server.js:640-664
bossTakeDamage(g, amount, source, hitAngle) ==
    LET boss == g.boss
        rejected ==
            \/ ("DASH_ONLY" \in boss.rules /\ source # "DASH")
            \/ ("PARRY_ONLY" \in boss.rules /\ source # "PARRY")
            \/ ("STUN_THEN_PUNISH" \in boss.rules /\ boss.shielded)
            \/ ("RICOCHET_REQUIRED" \in boss.rules /\ source # "RICOCHET_OK")
            \/ /\ "WEAKSPOT_CYCLE" \in boss.rules
               /\ \/ hitAngle = NoAngle
                  \/ Abs(angleDiff(hitAngle, boss.weakAngle)) * 2 > boss.weakArc
    IN  IF boss = NoBoss \/ rejected THEN g
        ELSE [g EXCEPT !.boss.hp = Max(0, boss.hp - amount),
                       !.shake = Max(g.shake, 12 + amount * 2),
                       !.shakeT = Max(g.shakeT, 180),
                       !.toast = "Boss hit!"]

BossX(b) == TDiv(b.x10, 10)
BossY(b) == TDiv(b.y10, 10)

\* src/server.js:668-674: the boss drifts toward its target
BossDrift(b, dt) ==
    LET t == b.t + dt
        tx == (W * 72) \div 10 + TDiv(Sin1000(TDiv(t * 11, 10)) * 700, 1000)
        ty == H * 5 + TDiv(Cos1000(TDiv(t * 9, 10)) * 700, 1000)
    IN  [b EXCEPT !.t = t,
                  !.x10 = b.x10 + TDiv((tx - b.x10) * 9 * dt, 10000),
                  !.y10 = b.y10 + TDiv((ty - b.y10) * 9 * dt, 10000)]

\* src/server.js:676-679
BossWeakSpot(b) ==
    IF "WEAKSPOT_CYCLE" \in b.rules
    THEN [b EXCEPT !.weakAngle = ((b.t \div b.weakCycleS) % 4) * 90]
    ELSE b

\* a stun rule that raises the shield at the next step
BossStunHasty(b, dt) ==
    IF "STUN_THEN_PUNISH" \in b.rules /\ ~b.shielded
    THEN [b EXCEPT !.stunnedT = 0, !.shielded = TRUE, !.stunHits = 0]
    ELSE b

\* src/server.js:681-689
BossStun(b, dt) ==
    LET st == IF ~b.shielded /\ b.stunnedT > 0 THEN Max(0, b.stunnedT - dt)
              ELSE b.stunnedT
    IN  IF "STUN_THEN_PUNISH" \in b.rules
        THEN IF st <= 0 /\ ~b.shielded
             THEN [b EXCEPT !.stunnedT = st, !.shielded = TRUE, !.stunHits = 0]
             ELSE [b EXCEPT !.stunnedT = st]
        ELSE b

\* src/server.js:692-693: the shockwave ring fires in this step
RingFires(b, dt) == ~b.ring.active /\ b.ring.cd - dt <= 0

\* src/server.js:699-703
RingGrow(ring, dt) ==
    IF ring.active
    THEN [ring EXCEPT !.r = ring.r + TDiv(ring.spd * dt, 1000),
                      !.active = ~(ring.r + TDiv(ring.spd * dt, 1000) > 540)]
    ELSE ring

\* src/server.js:691-704
BossRing(b, dt) ==
    RingGrow(IF RingFires(b, dt)
             THEN [b.ring EXCEPT !.active = TRUE, !.x = BossX(b), !.y = BossY(b),
                                 !.r = 10, !.cd = 2100]
             ELSE [b.ring EXCEPT !.cd = b.ring.cd - dt],
             dt)

\* src/server.js:691-704, on the Game
BossShock(g, b, dt) ==
    IF "PARRY_ONLY" \in b.rules
    THEN [g EXCEPT !.boss = [b EXCEPT !.ring = BossRing(b, dt)],
                   !.toast = IF RingFires(b, dt) THEN "Shockwave" ELSE g.toast]
    ELSE [g EXCEPT !.boss = b]

\* src/server.js:666-705
updateBoss(g, dt) ==
    IF g.boss = NoBoss THEN g
    ELSE BossShock(g, BossStun(BossWeakSpot(BossDrift(g.boss, dt)), dt), dt)

RECURSIVE WallLoop(_, _, _)
\* src/server.js:804-806 (and 717-719): every wall in order
WallLoop(p, walls, i) ==
    IF i > Len(walls) THEN p
    ELSE IF circleRectCollide(p.x, p.y, p.r, walls[i].x, walls[i].y, walls[i].w, walls[i].h)
    THEN WallLoop(resolveCircleRect(p, walls[i]), walls, i + 1)
    ELSE WallLoop(p, walls, i + 1)

\* src/server.js:720: the stone takes position and velocity of tmp
StoneAt(it, tmp) == [it EXCEPT !.x = tmp.x, !.y = tmp.y, !.vx = tmp.vx, !.vy = tmp.vy]

\* src/server.js:711-720: the stone moves, slows and bounces off the walls
MoveStone(it, walls, dt) ==
    StoneAt(it, WallLoop([x |-> it.x + TDiv(it.vx * dt, 1000),
                          y |-> it.y + TDiv(it.vy * dt, 1000),
                          vx |-> TDiv(it.vx * 992, 1000),
                          vy |-> TDiv(it.vy * 992, 1000),
                          r |-> it.r, bounceKeep |-> 90],
                         walls, 1))

\* src/server.js:721-747: the moved stone it1 against the boss shield
StoneHit(g, k, it1) ==
    LET b == g.boss
        dx == it1.x - BossX(b)
        dy == it1.y - BossY(b)
        touch == dx * dx + dy * dy <= (it1.r + b.r) * (it1.r + b.r)
        fast == it1.vx * it1.vx + it1.vy * it1.vy > 70 * 70
        crack == b # NoBoss /\ touch /\ fast /\ "STUN_THEN_PUNISH" \in b.rules /\ b.shielded
        hits == b.stunHits + 1
        it2 == [it1 EXCEPT !.vx = TDiv(it1.vx * 55, 100), !.vy = TDiv(it1.vy * 55, 100)]
    IN  IF ~crack THEN [g EXCEPT !.items[k] = it1]
        ELSE IF hits >= 2
        THEN [g EXCEPT !.items[k] = it2,
                       !.boss.stunHits = hits, !.boss.shielded = FALSE,
                       !.boss.stunnedT = StunWindowMs,
                       !.toast = "Shield down!",
                       !.shake = Max(Max(g.shake, 10), 18),
                       !.shakeT = Max(Max(g.shakeT, 160), 240)]
        ELSE [g EXCEPT !.items[k] = it2,
                       !.boss.stunHits = hits,
                       !.toast = "Shield cracked!",
                       !.shake = Max(g.shake, 10),
                       !.shakeT = Max(g.shakeT, 160)]

\* src/server.js:709-748, one stone
StepStone(g, k, dt) == StoneHit(g, k, MoveStone(g.items[k], g.walls, dt))

RECURSIVE StoneLoop(_, _, _)
StoneLoop(g, k, dt) ==
    IF k > Len(g.items) THEN g
    ELSE StoneLoop(IF g.items[k].type = "stone" THEN StepStone(g, k, dt) ELSE g, k + 1, dt)

\* src/server.js:707-749
updateStoneItems(g, dt) == StoneLoop(g, 1, dt)

\* src/server.js:751-758
keepInWorldOrRespawn(g, p) ==
    \/ NaNPlace(p)
    \/ p.x < -RespawnMargin \/ p.x > W + RespawnMargin
    \/ p.y < -RespawnMargin \/ p.y > H + RespawnMargin

(***************************************************************************)
(* Simulation step.                                                        *)
(***************************************************************************)
\* an end of turn that counts turnIndex up without wrapping it
endTurnNoWrap(g, reason) ==
    IF g.phase # "play" THEN g
    ELSE LET ti == g.turnIndex + 1
         IN  [g EXCEPT !.turnState = "aim",
                       !.turnMsLeft = TurnMs,
                       !.turnIndex = ti,
                       !.activeId = g.turnOrder[(ti % Len(g.turnOrder)) + 1],
                       !.toast = IF reason # "" THEN reason ELSE g.toast]

\* src/server.js:933-943
endTurn(g, reason) ==
    IF g.phase # "play" THEN g
    ELSE LET ti == (g.turnIndex + 1) % Len(g.turnOrder)
         IN  [g EXCEPT !.turnState = "aim",
                       !.turnMsLeft = TurnMs,
                       !.turnIndex = ti,
                       !.activeId = g.turnOrder[ti + 1],
                       !.toast = IF reason # "" THEN reason ELSE g.toast]

\* an end of turn that keeps the player whose turn it was
endTurnStay(g, reason) ==
    IF g.phase # "play" THEN g
    ELSE [g EXCEPT !.turnState = "aim",
                   !.turnMsLeft = TurnMs,
                   !.toast = IF reason # "" THEN reason ELSE g.toast]

\* src/server.js:945-947
startResolving(g) == [g EXCEPT !.turnState = "resolving"]

Near(ax, ay, bx, by, reach) ==
    (ax - bx) * (ax - bx) + (ay - by) * (ay - by) <= reach * reach

\* src/server.js:627-636: coin c, at d tenths of a px from the player
PullCoin(c, dx, dy, d, dt) ==
    IF c.takenBy = NoId /\ d > 0 /\ d < 1500
    THEN LET pull == TDiv(800 * (1500 - d) * dt, 1500)
         IN  [c EXCEPT !.x = c.x + TDiv(dx * 10 * pull, d * 1000),
                       !.y = c.y + TDiv(dy * 10 * pull, d * 1000)]
    ELSE c

RECURSIVE MagnetLoop(_, _, _, _)
\* src/server.js:623-638
MagnetLoop(coins, p, dt, i) ==
    IF i > Len(coins) THEN coins
    ELSE MagnetLoop([coins EXCEPT ![i] =
                        PullCoin(coins[i], p.x - coins[i].x, p.y - coins[i].y,
                                 Hypot10(p.x - coins[i].x, p.y - coins[i].y), dt)],
                    p, dt, i + 1)

applyMagnet(g, p, dt) ==
    IF p.magnetT <= 0 THEN g ELSE [g EXCEPT !.coins = MagnetLoop(g.coins, p, dt, 1)]

RECURSIVE PadLoop(_, _, _)
\* src/server.js:808-810
PadLoop(p, pads, i) ==
    IF i > Len(pads) THEN p
    ELSE IF circleRectCollide(p.x, p.y, p.r, pads[i].x, pads[i].y, pads[i].w, pads[i].h)
    THEN PadLoop(applyPadBoost(p), pads, i + 1)
    ELSE PadLoop(p, pads, i + 1)

\* src/server.js:813-819, one coin
TakeCoin(g, pid, i) ==
    LET c == g.coins[i]
        p == g.players[pid]
    IN  IF c.takenBy # NoId THEN g
        ELSE IF Near(p.x, p.y, c.x, c.y, p.r + c.r)
        THEN [g EXCEPT !.coins[i].takenBy = pid,
                       !.coins[i].taken = c.taken + 1,
                       !.players[pid].coins = p.coins + 10,
                       !.players[pid].score = p.score + 25]
        ELSE g

\* the pick-up that does not look at the marker
TakeCoinAgain(g, pid, i) ==
    LET c == g.coins[i]
        p == g.players[pid]
    IN  IF Near(p.x, p.y, c.x, c.y, p.r + c.r)
        THEN [g EXCEPT !.coins[i].takenBy = pid,
                       !.coins[i].taken = c.taken + 1,
                       !.players[pid].coins = p.coins + 10,
                       !.players[pid].score = p.score + 25]
        ELSE g

RECURSIVE CoinLoop(_, _, _)
\* src/server.js:812-820
CoinLoop(g, pid, i) ==
    IF i > Len(g.coins) THEN g ELSE CoinLoop(TakeCoin(g, pid, i), pid, i + 1)

\* src/server.js:823-831, one item
TakeItem(g, pid, i) ==
    LET it == g.items[i]
        p == g.players[pid]
    IN  IF it.takenBy # NoId \/ it.type = "stone" THEN g
        ELSE IF Near(p.x, p.y, it.x, it.y, p.r + it.r)
        THEN [g EXCEPT !.items[i].takenBy = pid,
                       !.players[pid].dashCharges =
                           IF it.type = "dash" THEN p.dashCharges + 1 ELSE p.dashCharges,
                       !.players[pid].shield =
                           IF it.type = "shield" THEN TRUE ELSE p.shield,
                       !.players[pid].magnetT =
                           IF it.type = "magnet" THEN 6000 ELSE p.magnetT]
        ELSE g

RECURSIVE ItemLoop(_, _, _)
\* src/server.js:822-832
ItemLoop(g, pid, i) ==
    IF i > Len(g.items) THEN g ELSE ItemLoop(TakeItem(g, pid, i), pid, i + 1)

\* src/server.js:840-842, 891-893
ToRespawnPoint(p) ==
    [p EXCEPT !.x = SpawnX, !.y = H \div 2, !.vx = 0, !.vy = 0, !.nan = {}]

RECURSIVE TrapLoop(_, _, _)
\* src/server.js:834-845
TrapLoop(p, traps, i) ==
    IF i > Len(traps) THEN p
    ELSE IF Near(p.x, p.y, traps[i].x, traps[i].y, p.r + TrapR)
    THEN TrapLoop(IF p.shield THEN [p EXCEPT !.shield = FALSE] ELSE ToRespawnPoint(p),
                  traps, i + 1)
    ELSE TrapLoop(p, traps, i + 1)

\* src/server.js:852-860: the stone i, d tenths of a px away, is pushed by a
\* player of speed sp (tenths of px/s)
Shove(g, i, dx, dy, d, sp) ==
    LET ux == IF d = 0 THEN dx * 1000 ELSE TDiv(dx * 10000, d)
        uy == IF d = 0 THEN dy * 1000 ELSE TDiv(dy * 10000, d)
    IN  [g EXCEPT !.items[i].vx = @ + TDiv(TDiv(ux * sp, 10) * 9, 10000),
                  !.items[i].vy = @ + TDiv(TDiv(uy * sp, 10) * 9, 10000),
                  !.shake = Max(g.shake, 6),
                  !.shakeT = Max(g.shakeT, 100)]

RECURSIVE ShoveLoop(_, _, _)
\* src/server.js:848-862
ShoveLoop(g, p, i) ==
    IF i > Len(g.items) THEN g
    ELSE LET it == g.items[i]
         IN  ShoveLoop(IF it.type = "stone" /\ Near(it.x, it.y, p.x, p.y, it.r + p.r)
                       THEN Shove(g, i, it.x - p.x, it.y - p.y,
                                  Hypot10(it.x - p.x, it.y - p.y),
                                  Max(900, Min(4200, Hypot10(p.vx, p.vy))))
                       ELSE g, p, i + 1)

\* src/server.js:869-873: the player, d tenths of a px from the boss, is
\* knocked away from it
Knockback(p, dx, dy, d) ==
    LET ux == IF d = 0 THEN dx * 1000 ELSE TDiv(dx * 10000, d)
        uy == IF d = 0 THEN dy * 1000 ELSE TDiv(dy * 10000, d)
    IN  [p EXCEPT !.vx = p.vx + TDiv(ux * BossKnock, 1000),
                  !.vy = p.vy + TDiv(uy * BossKnock, 1000)]

\* src/server.js:875-880: g1 is g after the strike, p1 the player after the
\* contact; the window closes
DashStrike(g, pid, p1, g1) ==
    [g1 EXCEPT !.players[pid] =
        [p1 EXCEPT !.dashStrikeWindow = 0,
                   !.dashHits = p1.dashHits + (g.boss.hp - g1.boss.hp)]]

\* contact that strikes whether or not a dash-strike window is open
BossContactAlways(g, pid) ==
    LET p == g.players[pid]
        b == g.boss
        dx == p.x - BossX(b)
        dy == p.y - BossY(b)
        source == IF "RICOCHET_REQUIRED" \in b.rules THEN "RICOCHET_OK" ELSE "DASH"
    IN  IF ~Near(p.x, p.y, BossX(b), BossY(b), p.r + b.r) THEN g
        ELSE DashStrike(g, pid, Knockback(p, dx, dy, Hypot10(dx, dy)),
                        bossTakeDamage(g, 1, source, Atan2Deg(dy, dx)))

\* src/server.js:865-882
BossContact(g, pid) ==
    LET p == g.players[pid]
        b == g.boss
        dx == p.x - BossX(b)
        dy == p.y - BossY(b)
        source == IF "RICOCHET_REQUIRED" \in b.rules THEN "RICOCHET_OK" ELSE "DASH"
    IN  IF ~Near(p.x, p.y, BossX(b), BossY(b), p.r + b.r) THEN g
        ELSE IF p.dashStrikeWindow > 0
        THEN DashStrike(g, pid, Knockback(p, dx, dy, Hypot10(dx, dy)),
                        bossTakeDamage(g, 1, source, Atan2Deg(dy, dx)))
        ELSE [g EXCEPT !.players[pid] = Knockback(p, dx, dy, Hypot10(dx, dy))]

\* src/server.js:884-896
RingPunish(g, pid) ==
    LET p == g.players[pid]
        b == g.boss
        d == Hypot10(p.x - b.ring.x, p.y - b.ring.y)
        hitRing == Abs(d - b.ring.r * 10) < 100
    IN  IF "PARRY_ONLY" \in b.rules /\ b.ring.active /\ hitRing /\ p.dashStrikeWindow <= 0
        THEN [g EXCEPT !.players[pid] =
                 IF p.shield THEN [p EXCEPT !.shield = FALSE] ELSE ToRespawnPoint(p)]
        ELSE g

\* src/server.js:780-786
Respawned(g, p) ==
    IF keepInWorldOrRespawn(g, p)
    THEN [ToRespawnPoint(p) EXCEPT !.dashStrikeWindow = 0, !.canDashThisTurn = FALSE]
    ELSE p

\* src/server.js:788-790
Timers(p, dt) ==
    [p EXCEPT !.magnetT = Max(0, p.magnetT - dt),
              !.dashStrikeWindow = IF p.dashStrikeWindow > 0
                                   THEN Max(0, p.dashStrikeWindow - dt)
                                   ELSE p.dashStrikeWindow]

\* src/server.js:794-800: position, then friction f (1/10000) and the snap
Integrate(p, dt, f) ==
    LET fvx == TDiv(p.vx * f, 10000)
        fvy == TDiv(p.vy * f, 10000)
    IN  [p EXCEPT !.x = p.x + TDiv(p.vx * dt, 1000),
                  !.y = p.y + TDiv(p.vy * dt, 1000),
                  !.vx = IF Abs(fvx) < SnapSpeed THEN 0 ELSE fvx,
                  !.vy = IF Abs(fvy) < SnapSpeed THEN 0 ELSE fvy]

\* src/server.js:808-810: pads, for the player p5 that the walls made of p4
Pads(p4, p5, pads) ==
    [PadLoop(p5, pads, 1) EXCEPT !.bounced = p4.bounced \/ p5 # p4]

\* src/server.js:804-810: walls, then pads
Bounces(p4, walls, pads) == Pads(p4, WallLoop(p4, walls, 1), pads)

\* src/server.js:794-810
Moved(p, walls, pads, dt) ==
    Bounces(clampSpeed(Integrate(p, dt, FrictionPow(dt)), MaxSpeed), walls, pads)

\* src/server.js:834-845
Traps(g, pid) == [g EXCEPT !.players[pid] = TrapLoop(g.players[pid], g.traps, 1)]

\* src/server.js:847-863
Stones(g, pid) == IF g.mode = "boss" THEN ShoveLoop(g, g.players[pid], 1) ELSE g

\* src/server.js:865-896
BossTouch(g, pid) == IF g.boss = NoBoss THEN g ELSE RingPunish(BossContact(g, pid), pid)

\* src/server.js:812-896: pick-ups, traps, stones and boss for the moved player
Touches(g, pid, p) ==
    BossTouch(Stones(Traps(ItemLoop(CoinLoop([g EXCEPT !.players[pid] = p], pid, 1),
                                    pid, 1), pid), pid), pid)

\* src/server.js:778-897, the timers p of one player of the resolving loop
StepTimed(g, pid, p, dt) ==
    Touches(applyMagnet(g, p, dt), pid, Moved(p, g.walls, g.pads, dt))

\* src/server.js:794-802 for a player whose velocity holds a NaN: the
\* position takes the NaN, friction and the snap leave it, and clampSpeed
\* does nothing
Adrift(p, dt) ==
    LET q == Integrate(p, dt, FrictionPow(dt))
        nan == p.nan \cup (IF "vx" \in p.nan THEN {"x"} ELSE {})
                     \cup (IF "vy" \in p.nan THEN {"y"} ELSE {})
    IN  [q EXCEPT !.nan = nan,
                  !.x = IF "x" \in nan THEN 0 ELSE q.x,
                  !.y = IF "y" \in nan THEN 0 ELSE q.y,
                  !.vx = IF "vx" \in nan THEN 0 ELSE q.vx,
                  !.vy = IF "vy" \in nan THEN 0 ELSE q.vy]

\* src/server.js:778-897, one player of the resolving loop.  Every test of
\* 804-896 compares a distance taken from both x and y, which is NaN for a
\* player whose place holds a NaN: none of them is true.
StepPlayer(g, pid, dt) ==
    LET p == Timers(Respawned(g, g.players[pid]), dt)
    IN  IF NaNSpeed(p)
        THEN [applyMagnet(g, p, dt) EXCEPT !.players[pid] = Adrift(p, dt)]
        ELSE StepTimed(g, pid, p, dt)

RECURSIVE PlayerLoop(_, _, _)
\* src/server.js:777-898
PlayerLoop(g, i, dt) ==
    IF i > Len(g.pkeys) THEN g ELSE PlayerLoop(StepPlayer(g, g.pkeys[i], dt), i + 1, dt)

\* src/server.js:908-916, one player of the race win check
Finish(g, pid) ==
    LET p == g.players[pid]
        fin == g.finish
    IN  IF /\ ~p.finished
           /\ ~NaNPlace(p)
           /\ circleRectCollide(p.x, p.y, p.r, fin.x, fin.y, fin.w, fin.h)
        THEN [g EXCEPT !.players[pid].finished = TRUE,
                       !.players[pid].score = p.score + 100,
                       !.players[pid].coins = p.coins + 20,
                       !.winnerId = pid,
                       !.phase = "round_end",
                       !.toast = "Winner"]
        ELSE g

RECURSIVE FinishLoop(_, _)
\* src/server.js:904-918
FinishLoop(g, i) ==
    IF i > Len(g.pkeys) THEN g ELSE FinishLoop(Finish(g, g.pkeys[i]), i + 1)

\* a boss win that ends the round and pays nobody
BossWinUnpaid(g) ==
    IF g.mode = "boss" /\ g.boss # NoBoss /\ g.phase = "play" /\ g.boss.hp <= 0
    THEN [g EXCEPT !.phase = "round_end", !.toast = "Boss defeated!"]
    ELSE g

\* src/server.js:920-930
BossWin(g) ==
    IF g.mode = "boss" /\ g.boss # NoBoss /\ g.phase = "play" /\ g.boss.hp <= 0
    THEN [g EXCEPT !.phase = "round_end",
                   !.toast = "Boss defeated!",
                   !.players = [pid \in DOMAIN g.players |->
                       [g.players[pid] EXCEPT !.coins = @ + 40, !.score = @ + 80]]]
    ELSE g

AllStopped(g) == \A pid \in DOMAIN g.players : isStopped(g.players[pid])

\* src/server.js:761-767
Clock(g, dt) ==
    LET shT == IF g.shakeT > 0 THEN Max(0, g.shakeT - dt) ELSE g.shakeT
    IN  [g EXCEPT !.shakeT = shT,
                  !.shake = IF shT <= 0 THEN TDiv(g.shake * 9, 10) ELSE g.shake,
                  !.turnMsLeft = g.turnMsLeft - dt]

\* src/server.js:768-770
TimeUp(g) == IF g.turnMsLeft <= 0 /\ g.phase = "play" THEN endTurn(g, "Time up") ELSE g

\* src/server.js:771-774
BossStep(g, dt) == IF g.mode = "boss" THEN updateStoneItems(updateBoss(g, dt), dt) ELSE g

\* src/server.js:899-902
Settle(g) == IF AllStopped(g) THEN endTurn(g, "") ELSE g

\* a resolving loop that runs in every phase
ResolveAnyPhase(g, dt) ==
    IF g.turnState = "resolving" THEN Settle(PlayerLoop(g, 1, dt)) ELSE g

\* src/server.js:776-903
Resolve(g, dt) ==
    IF g.turnState = "resolving" /\ g.phase = "play" THEN Settle(PlayerLoop(g, 1, dt))
    ELSE g

\* src/server.js:904-918
RaceWin(g) ==
    IF g.mode = "race" /\ g.hasFinish /\ g.phase = "play" THEN FinishLoop(g, 1) ELSE g

\* src/server.js:760-931
stepGame(g, dt) == BossWin(RaceWin(Resolve(BossStep(TimeUp(Clock(g, dt)), dt), dt)))

(***************************************************************************)
(* Player actions and rounds.                                              *)
(***************************************************************************)
\* src/server.js:949-965
applyFlick(g, pid, vx, vy) ==
    IF pid \notin DOMAIN g.players THEN g
    ELSE
    LET p == g.players[pid]
        first == p.charId = "agouti" /\ p.firstLaunchAvailable
        boost == IF first THEN 122 ELSE 100
        p1 == [p EXCEPT !.firstLaunchAvailable = IF first THEN FALSE ELSE @,
                        !.vx = p.vx + TDiv(vx * boost, 100),
                        !.vy = p.vy + TDiv(vy * boost, 100)]
        p2 == clampSpeed(p1, MaxSpeed)
    IN  [g EXCEPT !.players[pid] =
            [p2 EXCEPT !.canDashThisTurn = TRUE, !.dashUsedThisTurn = FALSE,
                       !.bounced = FALSE]]

\* src/server.js:968-975: the dash is accepted
dashOk(g, pid) ==
    /\ pid \in DOMAIN g.players
    /\ g.players[pid].canDashThisTurn
    /\ ~g.players[pid].dashUsedThisTurn
    /\ g.players[pid].dashCharges > 0
    /\ NaNSpeed(g.players[pid]) \/ Speed2(g.players[pid]) > 0

\* a dash gate that forgets the per-turn flag
dashOkRepeat(g, pid) ==
    /\ pid \in DOMAIN g.players
    /\ g.players[pid].canDashThisTurn
    /\ g.players[pid].dashCharges > 0
    /\ Speed2(g.players[pid]) > 0

\* src/server.js:996-1000
Jolt(g, toast, shake, shakeT) ==
    [g EXCEPT !.toast = toast,
              !.shake = Max(g.shake, shake),
              !.shakeT = Max(g.shakeT, shakeT)]

\* src/server.js:988-992: the player is within the parry tolerance of the ring
ParryGate(g, pid) ==
    /\ g.boss # NoBoss
    /\ "PARRY_ONLY" \in g.boss.rules
    /\ g.boss.ring.active
    /\ Abs(Hypot10(g.players[pid].x - g.boss.ring.x, g.players[pid].y - g.boss.ring.y)
           - g.boss.ring.r * 10) < 220

\* the angle of the player as seen from the boss
AngleFromBoss(g, pid) ==
    Atan2Deg(g.players[pid].y - BossY(g.boss), g.players[pid].x - BossX(g.boss))

\* a parry that leaves the ring active
ParryKeepRing(g, pid) ==
    IF ParryGate(g, pid)
    THEN Jolt(bossTakeDamage(g, 1, "PARRY", AngleFromBoss(g, pid)), "Parry!", 16, 220)
    ELSE g

\* src/server.js:988-1001
Parry(g, pid) ==
    IF ParryGate(g, pid)
    THEN [Jolt(bossTakeDamage(g, 1, "PARRY", AngleFromBoss(g, pid)), "Parry!", 16, 220)
             EXCEPT !.boss.ring.active = FALSE]
    ELSE g

\* src/server.js:977-986: the boost along the velocity, of length sp tenths
Boost(p, sp) ==
    [p EXCEPT !.vx = p.vx + TDiv(p.vx * 10 * DashPower, sp),
              !.vy = p.vy + TDiv(p.vy * 10 * DashPower, sp),
              !.dashCharges = p.dashCharges - 1,
              !.dashUsedThisTurn = TRUE,
              !.dashStrikeWindow = DashWindowMs,
              !.dashHits = 0]

\* src/server.js:967-1004, for an accepted dash
\* (a speed of NaN divides by 1: sp || 1)
applyDash(g, pid) ==
    Parry([g EXCEPT !.players[pid] =
              Boost(g.players[pid],
                    IF NaNSpeed(g.players[pid]) THEN 10
                    ELSE Hypot10(g.players[pid].vx, g.players[pid].vy))], pid)

\* src/server.js:1018-1020, 1270-1272: the level after levelId
NextLevel(levelId) ==
    RACE_LEVELS[((Max(0, LevelNo(levelId) - 1) + 1) % Len(RACE_LEVELS)) + 1]

\* src/server.js:1006-1026
\* the new round that keeps the turn order as it was
nextRoundKeepOrder(g) ==
    LET g1 == [g EXCEPT !.round = g.round + 1,
                        !.phase = "play",
                        !.winnerId = NoId,
                        !.toast = "",
                        !.turnIndex = 0,
                        !.activeId = g.turnOrder[1],
                        !.turnState = "aim",
                        !.turnMsLeft = TurnMs]
    IN  IF g.mode = "race" THEN buildRaceLevel(g1, NextLevel(g.levelId))
        ELSE buildBossRound(g1)

\* a next round that appends the first id of turnOrder and keeps it in front
nextRoundTwice(g) ==
    LET order == g.turnOrder \o << Head(g.turnOrder) >>
        g1 == [g EXCEPT !.round = g.round + 1,
                        !.phase = "play",
                        !.winnerId = NoId,
                        !.toast = "",
                        !.turnOrder = order,
                        !.turnIndex = 0,
                        !.activeId = order[1],
                        !.turnState = "aim",
                        !.turnMsLeft = TurnMs]
    IN  IF g.mode = "race" THEN buildRaceLevel(g1, NextLevel(g.levelId))
        ELSE buildBossRound(g1)

\* src/server.js:1006-1026
nextRound(g) ==
    LET order == Tail(g.turnOrder) \o << Head(g.turnOrder) >>
        g1 == [g EXCEPT !.round = g.round + 1,
                        !.phase = "play",
                        !.winnerId = NoId,
                        !.toast = "",
                        !.turnOrder = order,
                        !.turnIndex = 0,
                        !.activeId = order[1],
                        !.turnState = "aim",
                        !.turnMsLeft = TurnMs]
    IN  IF g.mode = "race" THEN buildRaceLevel(g1, NextLevel(g.levelId))
        ELSE buildBossRound(g1)

(***************************************************************************)
(* The room: connections, lobby, Game, loop.                               *)
(***************************************************************************)
VARIABLES
    wsOpen,      \* socket -> the connection is open
    wsRoom,      \* socket -> ws.roomCode is set
    wsPid,       \* socket -> ws.playerId (NoId: null)
    roomExists,  \* the room is in the registry
    clients,     \* room.clients, in insertion order: << [ws, pid], ... >>
    hostId,      \* room.hostId
    lobby,       \* room.lobby: mode, started, picks, ready
    game,        \* room.game (NoGame: null)
    loop,        \* room._loop is set (the interval timer exists)
    lastSnap,    \* room.lastSnap, ms
    nextId,      \* the next id randId() returns
    flicksLeft,  \* accepted flicks still explored
    reloadsLeft, \* host_reload_map commands still explored
    ticksLeft,   \* timer callbacks still explored
    lastEvent    \* the handler that ran last, and what it sent

vars == << wsOpen, wsRoom, wsPid, roomExists, clients, hostId, lobby, game, loop,
           lastSnap, nextId, flicksLeft, reloadsLeft, ticksLeft, lastEvent >>

budgets == << flicksLeft, reloadsLeft, ticksLeft >>

roomVars == << roomExists, clients, hostId, lobby, game, loop, lastSnap >>

WS == 1..NumSockets
Ids == 1..MaxIds
Chars == {"hummingbird", "manicou"}
Modes == {"race", "boss"}

\* launch vectors a client sends with "act", per stage and character
\* a frog aims by where it stands: the first leg out of the spawn corridor,
\* the second leg across the maze to the finish
FrogLegs == << { <<800, -1000>>, <<1400, 800>> }, { <<1400, 0>>, <<1500, -700>> } >>
RaceVecs(levelId, charId) ==
    IF charId = "frog" THEN FrogLegs[1] \cup FrogLegs[2]
    ELSE IF charId = "agouti"
    THEN IF levelId = "maze_long_1" THEN { <<1750, 1000>>, <<1400, 0>> }
         ELSE { <<4, 0>>, <<400, -1900>> }
    ELSE IF levelId = "maze_long_1" THEN { <<4, 0>>, <<600, 1000>>, <<900, 600>> }
         ELSE { <<4, 0>>, <<400, 160>> }
BossVecs(bossId, charId) ==
    IF charId = "frog" THEN { <<4, 0>>, <<600, -1500>> }
    ELSE IF bossId = "armored_crab" THEN { <<4, 0>>, <<1300, 0>>, <<3000, 0>> }
    ELSE IF bossId = "spirit_owl" THEN { <<-2000, -800>>, <<-2000, -1100>> }
    ELSE IF bossId = "totem_jaguar"
    THEN { <<1650, 900>>, <<-1050, -250>>, <<1300, 200>> }
    ELSE { <<4, 0>>, <<1300, 200>>, <<1600, 700>> }
FlickVecs(g, pid) ==
    IF g.mode = "race"
    THEN IF g.players[pid].charId = "frog"
         THEN FrogLegs[IF g.players[pid].x < LegX THEN 1 ELSE 2]
         ELSE RaceVecs(g.levelId, g.players[pid].charId)
    ELSE BossVecs(g.boss.id, g.players[pid].charId)
AllFlickVecs ==
    UNION { RaceVecs(RACE_LEVELS[i], c) : i \in 1..Len(RACE_LEVELS),
                                         c \in {"agouti", "manicou", "frog"} }
    \cup UNION { BossVecs(BOSS_DEFS[i].id, c) : i \in 1..Len(BOSS_DEFS),
                                                c \in {"hummingbird", "frog"} }

\* src/server.js:63-69
NewLobby == [mode |-> "race", started |-> FALSE,
             picks |-> [i \in Ids |-> "none"], ready |-> [i \in Ids |-> FALSE]]

Event(t, ws, pid, err, snaps) ==
    [t |-> t, ws |-> ws, pid |-> pid, err |-> err, snaps |-> snaps]

\* toast of the snapshot makeSnapshot(room) builds (src/server.js:1028-1083)
SnapToast(g) == IF g = NoGame THEN "" ELSE g.toast

ClientIds(cl) == [i \in 1..Len(cl) |-> cl[i].pid]
ClientOf(cl, ws) == IF \E i \in 1..Len(cl) : cl[i].ws = ws
                    THEN CHOOSE i \in 1..Len(cl) : cl[i].ws = ws ELSE 0

\* clients send while a turn or a round end is young: at most k ticks after
\* the turn's start, or after the tick that ended the round
Young(g, k) ==
    IF g = NoGame THEN TRUE
    ELSE IF g.phase = "play" THEN TurnMs - g.turnMsLeft <= k * MaxSliceMs
    ELSE g.endT <= (k + 1) * MaxSliceMs

Init ==
    /\ wsOpen = [w \in WS |-> TRUE]
    /\ wsRoom = [w \in WS |-> FALSE]
    /\ wsPid = [w \in WS |-> NoId]
    /\ roomExists = FALSE
    /\ clients = << >>
    /\ hostId = NoId
    /\ lobby = NewLobby
    /\ game = NoGame
    /\ loop = FALSE
    /\ lastSnap = 0
    /\ nextId = 1
    /\ flicksLeft = MaxFlicks
    /\ reloadsLeft = MaxReloads
    /\ ticksLeft = RoomTicks
    /\ lastEvent = Event("init", 0, NoId, FALSE, << >>)

\* the message reaches a room: src/server.js:1175-1178
InRoom(ws) == wsOpen[ws] /\ wsRoom[ws] /\ roomExists

Ignore(t, ws) ==
    /\ lastEvent' = Event(t, ws, wsPid[ws], FALSE, << >>)
    /\ UNCHANGED << wsOpen, wsRoom, wsPid, roomExists, clients, hostId, lobby, game, loop,
                    lastSnap, nextId, budgets >>

\* src/server.js:1142-1173
Join(ws) ==
    /\ wsOpen[ws]
    /\ nextId <= MaxIds
    /\ Young(game, AdminTicks)
    /\ LET cl == IF roomExists THEN clients ELSE << >>
           pid == nextId
           k == ClientOf(cl, ws)
       IN  IF Len(cl) >= MaxPlayers
           THEN /\ lastEvent' = Event("join", ws, wsPid[ws], TRUE, << >>)
                /\ roomExists' = TRUE
                /\ UNCHANGED << wsOpen, wsRoom, wsPid, clients, hostId, lobby, game, loop,
                                lastSnap, nextId, budgets >>
           ELSE /\ roomExists' = TRUE
                /\ wsRoom' = [wsRoom EXCEPT ![ws] = TRUE]
                /\ wsPid' = [wsPid EXCEPT ![ws] = pid]
                /\ nextId' = nextId + 1
                /\ clients' = IF k = 0 THEN Append(cl, [ws |-> ws, pid |-> pid])
                              ELSE [cl EXCEPT ![k].pid = pid]
                /\ hostId' = IF hostId = NoId THEN pid ELSE hostId
                /\ lobby' = [lobby EXCEPT !.ready[pid] = FALSE]
                /\ lastEvent' = Event("join", ws, pid, FALSE, << SnapToast(game) >>)
                /\ UNCHANGED << wsOpen, game, loop, lastSnap, budgets >>

\* src/server.js:1181-1189 (names are not modelled)
SetName(ws) ==
    /\ InRoom(ws)
    /\ Young(game, 0)
    /\ lastEvent' = Event("set_name", ws, wsPid[ws], FALSE, << SnapToast(game) >>)
    /\ UNCHANGED << wsOpen, wsRoom, wsPid, roomExists, clients, hostId, lobby, game, loop,
                    lastSnap, nextId, budgets >>

\* src/server.js:1192-1199
SetMode(ws, m) ==
    /\ InRoom(ws)
    /\ Young(game, 0)
    /\ IF wsPid[ws] # hostId \/ lobby.started THEN Ignore("set_mode", ws)
       ELSE /\ lobby' = [lobby EXCEPT !.mode = m]
            /\ lastEvent' = Event("set_mode", ws, wsPid[ws], FALSE, << SnapToast(game) >>)
            /\ UNCHANGED << wsOpen, wsRoom, wsPid, roomExists, clients, hostId, game, loop,
                            lastSnap, nextId, budgets >>

\* src/server.js:1202-1209
Pick(ws, charId) ==
    /\ InRoom(ws)
    /\ Young(game, 0)
    /\ IF lobby.started THEN Ignore("pick", ws)
       ELSE /\ lobby' = [lobby EXCEPT !.picks[wsPid[ws]] = charId,
                                      !.ready[wsPid[ws]] = FALSE]
            /\ lastEvent' = Event("pick", ws, wsPid[ws], FALSE, << SnapToast(game) >>)
            /\ UNCHANGED << wsOpen, wsRoom, wsPid, roomExists, clients, hostId, game, loop,
                            lastSnap, nextId, budgets >>

\* src/server.js:1212-1218
Ready(ws, v) ==
    /\ InRoom(ws)
    /\ Young(game, 0)
    /\ IF lobby.started THEN Ignore("ready", ws)
       ELSE /\ lobby' = [lobby EXCEPT !.ready[wsPid[ws]] = v]
            /\ lastEvent' = Event("ready", ws, wsPid[ws], FALSE, << SnapToast(game) >>)
            /\ UNCHANGED << wsOpen, wsRoom, wsPid, roomExists, clients, hostId, game, loop,
                            lastSnap, nextId, budgets >>

\* an ensureRoomLoop that sets a timer at every call
ensureRoomLoopAlways(l) == [loop |-> TRUE, made |-> 1]

\* src/server.js:1089-1116: the handle room._loop after the call, and the
\* number of interval timers the call has set
ensureRoomLoop(l) == IF l THEN [loop |-> l, made |-> 0] ELSE [loop |-> TRUE, made |-> 1]

\* src/server.js:1221-1249
Start(ws) ==
    /\ InRoom(ws)
    /\ LET ids == ClientIds(clients)
           picks == [i \in Ids |->
                        IF (\E k \in 1..Len(ids) : ids[k] = i) /\ lobby.picks[i] = "none"
                        THEN "agouti" ELSE lobby.picks[i]]
       IN  IF wsPid[ws] # hostId \/ lobby.started \/ Len(ids) < 1
           THEN Ignore("start", ws)
           ELSE IF \E k \in 1..Len(ids) : ~lobby.ready[ids[k]]
           THEN /\ lobby' = [lobby EXCEPT !.picks = picks]
                /\ lastEvent' = Event("start", ws, wsPid[ws], TRUE, << >>)
                /\ UNCHANGED << wsOpen, wsRoom, wsPid, roomExists, clients, hostId, game,
                                loop, lastSnap, nextId, budgets >>
           ELSE \E g \in { makeGame(lobby.mode, ids, picks) } :
                    /\ lobby' = [lobby EXCEPT !.picks = picks, !.started = TRUE]
                    /\ game' = g
                    /\ lastSnap' = 0
                    /\ loop' = ensureRoomLoop(loop).loop
                    /\ lastEvent' = [t |-> "start", ws |-> ws, pid |-> wsPid[ws],
                                     err |-> FALSE, snaps |-> << g.toast >>,
                                     made |-> ensureRoomLoop(loop).made]
                    /\ UNCHANGED << wsOpen, wsRoom, wsPid, roomExists, clients, hostId,
                                    nextId, budgets >>

\* a reset that any client of the room may send
ResetAnySender(ws) ==
    /\ InRoom(ws)
    /\ Young(game, 0)
    /\ lobby' = [lobby EXCEPT !.started = FALSE, !.ready = [i \in Ids |-> FALSE]]
    /\ game' = NoGame
    /\ lastEvent' = Event("reset", ws, wsPid[ws], FALSE, << "" >>)
    /\ UNCHANGED << wsOpen, wsRoom, wsPid, roomExists, clients, hostId, loop,
                    lastSnap, nextId, budgets >>

\* src/server.js:1252-1261
Reset(ws) ==
    /\ InRoom(ws)
    /\ Young(game, 0)
    /\ IF wsPid[ws] # hostId THEN Ignore("reset", ws)
       ELSE /\ lobby' = [lobby EXCEPT !.started = FALSE,
                                      !.ready = [i \in Ids |-> FALSE]]
            /\ game' = NoGame
            /\ lastEvent' = Event("reset", ws, wsPid[ws], FALSE, << "" >>)
            /\ UNCHANGED << wsOpen, wsRoom, wsPid, roomExists, clients, hostId, loop,
                            lastSnap, nextId, budgets >>

\* src/server.js:1268-1279: the Game the host's reload leaves
ReloadMap(g) ==
    IF g.mode = "race"
    THEN [buildRaceLevel(g, NextLevel(g.levelId)) EXCEPT !.toast = "Map reloaded!"]
    ELSE [buildBossRound(g) EXCEPT !.toast = "Boss arena reloaded!"]

\* src/server.js:1264-1282
HostReloadMap(ws) ==
    /\ InRoom(ws)
    /\ Young(game, AdminTicks)
    /\ IF wsPid[ws] # hostId \/ game = NoGame THEN Ignore("host_reload_map", ws)
       ELSE /\ reloadsLeft > 0
            /\ \E g \in { ReloadMap(game) } :
                   /\ game' = g
                   /\ lastEvent' = Event("host_reload_map", ws, wsPid[ws], FALSE,
                                         << g.toast >>)
            /\ reloadsLeft' = reloadsLeft - 1
            /\ UNCHANGED << wsOpen, wsRoom, wsPid, roomExists, clients, hostId, lobby,
                            loop, lastSnap, nextId, flicksLeft, ticksLeft >>

\* src/server.js:1285-1293
HostResetPositions(ws) ==
    /\ InRoom(ws)
    /\ Young(game, AdminTicks)
    /\ IF wsPid[ws] # hostId \/ game = NoGame THEN Ignore("host_reset_positions", ws)
       ELSE /\ game' = [resetPlayersToSpawn(game) EXCEPT !.toast = "Positions reset!"]
            /\ lastEvent' = Event("host_reset_positions", ws, wsPid[ws], FALSE,
                                  << "Positions reset!" >>)
            /\ UNCHANGED << wsOpen, wsRoom, wsPid, roomExists, clients, hostId, lobby,
                            loop, lastSnap, nextId, budgets >>

\* a gate that does not look at the sender
actGateAnySender(g, pid) ==
    /\ g # NoGame
    /\ g.phase = "play"
    /\ g.turnState = "aim"

\* a gate that does not look at the turn state
actGateAnyState(g, pid) ==
    /\ g # NoGame
    /\ g.phase = "play"
    /\ g.activeId = pid

\* src/server.js:1297-1302: the gate of "act"
actGate(g, pid) ==
    /\ g # NoGame
    /\ g.phase = "play"
    /\ g.activeId = pid
    /\ g.turnState = "aim"

\* a player who waits for the weak spot sends the flick when it has just
\* turned (src/server.js:676-679)
WeakSpotTurned(g) ==
    IF g = NoGame THEN FALSE
    ELSE IF g.boss = NoBoss THEN FALSE
    ELSE "WEAKSPOT_CYCLE" \in g.boss.rules /\ g.boss.t % g.boss.weakCycleS < MaxSliceMs

\* a player who has waited sends the flick when the turn clock is about to
\* run out (bound LateTicks)
LastCall(g) ==
    IF g = NoGame THEN FALSE
    ELSE g.phase = "play" /\ g.turnState = "aim" /\ g.turnMsLeft <= LateTicks * MaxSliceMs

\* src/server.js:1296-1315
Act(ws, kind, v) ==
    /\ InRoom(ws)
    /\ Young(game, InputTicks) \/ WeakSpotTurned(game) \/ LastCall(game)
    /\ IF ~actGate(game, wsPid[ws]) \/ kind # "flick" THEN Ignore("act", ws)
       ELSE /\ flicksLeft > 0
            /\ v \in FlickVecs(game, wsPid[ws])
            /\ \E g \in { [startResolving(applyFlick(game, wsPid[ws],
                                       clamp(v[1], -FlickLimit, FlickLimit),
                                       clamp(v[2], -FlickLimit, FlickLimit)))
                             EXCEPT !.toast = "launched",
                                    !.launcher = wsPid[ws], !.dashes = 0] } :
                   /\ game' = g
                   /\ lastEvent' = Event("flick", ws, wsPid[ws], FALSE, << g.toast >>)
            /\ flicksLeft' = flicksLeft - 1
            /\ UNCHANGED << wsOpen, wsRoom, wsPid, roomExists, clients, hostId, lobby,
                            loop, lastSnap, nextId, reloadsLeft, ticksLeft >>

\* src/server.js:1318-1322: the gate of "dash"
dashGate(g, pid) ==
    /\ g # NoGame
    /\ g.phase = "play"
    /\ g.activeId = pid
    /\ g.turnState = "resolving"

\* the ring of a PARRY_ONLY boss is within k ticks of growth of the parry
\* tolerance around the player (src/server.js:988-992, 701-702)
RingNear(g, pid, k) ==
    IF g = NoGame THEN FALSE
    ELSE IF g.boss = NoBoss \/ pid \notin DOMAIN g.players THEN FALSE
    ELSE LET p == g.players[pid]
             b == g.boss
             dist == Hypot10(p.x - b.ring.x, p.y - b.ring.y)
         IN  /\ "PARRY_ONLY" \in b.rules
             /\ b.ring.active
             /\ Abs(dist - b.ring.r * 10) < 220 + k * 110

\* the boss is within reach of a strike: the player can touch it before the
\* dash-strike window closes (src/server.js:865-867, 980-985)
BossNear(g, pid) ==
    IF g = NoGame THEN FALSE
    ELSE IF g.boss = NoBoss \/ pid \notin DOMAIN g.players THEN FALSE
    ELSE LET p == g.players[pid]
             b == g.boss
         IN  Hypot10(p.x - BossX(b), p.y - BossY(b))
                 <= (p.r + b.r) * 10
                    + TDiv((Hypot10(p.vx, p.vy) + DashPower * 10) * DashWindowMs, 1000)

\* src/server.js:1317-1330
Dash(ws) ==
    /\ InRoom(ws)
    /\ IF dashGate(game, wsPid[ws])
       THEN \/ Young(game, DashTicks)
            \/ RingNear(game, wsPid[ws], RingTicks)
            \/ BossNear(game, wsPid[ws])
       ELSE Young(game, InputTicks)
    /\ IF ~dashGate(game, wsPid[ws]) THEN Ignore("dash", ws)
       ELSE IF ~dashOk(game, wsPid[ws]) THEN Ignore("dash", ws)
       ELSE \E g \in { [applyDash(game, wsPid[ws]) EXCEPT !.toast = "Dash!",
                                                           !.dashes = @ + 1] } :
                /\ game' = g
                /\ lastEvent' = Event("dashed", ws, wsPid[ws], FALSE, << g.toast >>)
                /\ UNCHANGED << wsOpen, wsRoom, wsPid, roomExists, clients, hostId, lobby,
                                loop, lastSnap, nextId, budgets >>

RemoveAt(sq, k) == SubSeq(sq, 1, k - 1) \o SubSeq(sq, k + 1, Len(sq))
Without(sq, e) == SelectSeq(sq, LAMBDA x : x # e)

\* a leave that keeps turnIndex and activeId as they were
leaveGameStale(g, pid) ==
    IF g = NoGame \/ pid = NoId \/ pid \notin DOMAIN g.players THEN g
    ELSE LET order == Without(g.turnOrder, pid)
         IN  IF Len(order) > 0
             THEN [g EXCEPT !.players = [q \in DOMAIN g.players \ {pid} |-> g.players[q]],
                            !.pkeys = Without(g.pkeys, pid),
                            !.turnOrder = order]
             ELSE NoGame

\* a leave that takes the id out of turnOrder and keeps the entity
leaveGameKeepEntity(g, pid) ==
    IF g = NoGame \/ pid = NoId \/ pid \notin DOMAIN g.players THEN g
    ELSE LET order == Without(g.turnOrder, pid)
             ti == g.turnIndex % Len(order)
         IN  IF Len(order) > 0
             THEN [g EXCEPT !.turnOrder = order,
                            !.turnIndex = ti,
                            !.activeId = order[ti + 1]]
             ELSE NoGame

\* src/server.js:1353-1363: the Game after the player left (NoGame: torn down)
leaveGame(g, pid) ==
    IF g = NoGame \/ pid = NoId \/ pid \notin DOMAIN g.players THEN g
    ELSE LET order == Without(g.turnOrder, pid)
             ti == g.turnIndex % Len(order)
         IN  IF Len(order) > 0
             THEN [g EXCEPT !.players = [q \in DOMAIN g.players \ {pid} |-> g.players[q]],
                            !.pkeys = Without(g.pkeys, pid),
                            !.turnOrder = order,
                            !.turnIndex = ti,
                            !.activeId = order[ti + 1]]
             ELSE NoGame

\* src/server.js:1333-1371
Close(ws) ==
    /\ wsOpen[ws]
    /\ Young(game, CloseTicks)
    /\ wsOpen' = [wsOpen EXCEPT ![ws] = FALSE]
    /\ UNCHANGED << wsRoom, wsPid, nextId, budgets >>
    /\ IF ~(wsRoom[ws] /\ roomExists)
       THEN /\ lastEvent' = Event("close", ws, wsPid[ws], FALSE, << >>)
            /\ UNCHANGED roomVars
       ELSE LET pid == wsPid[ws]
                k == ClientOf(clients, ws)
                cl == IF k = 0 THEN clients ELSE RemoveAt(clients, k)
                g == leaveGame(game, pid)
                torn == game # NoGame /\ g = NoGame
            IN  IF Len(cl) = 0
                THEN /\ roomExists' = FALSE
                     /\ clients' = << >>
                     /\ hostId' = NoId
                     /\ lobby' = NewLobby
                     /\ game' = NoGame
                     /\ loop' = FALSE
                     /\ lastSnap' = 0
                     /\ lastEvent' = Event("close", ws, pid, FALSE, << >>)
                ELSE /\ clients' = cl
                     /\ hostId' = IF pid = hostId THEN cl[1].pid ELSE hostId
                     /\ lobby' = [lobby EXCEPT !.picks[pid] = "none",
                                              !.ready[pid] = FALSE,
                                              !.started = IF torn THEN FALSE ELSE @]
                     /\ game' = g
                     /\ lastEvent' = Event("close", ws, pid, FALSE, << SnapToast(g) >>)
                     /\ UNCHANGED << roomExists, loop, lastSnap >>

\* src/server.js:1107-1114: the round end is due in this callback
RoundEndDue(g, dt) == g.phase = "round_end" /\ g.endT + dt > RoundEndDelayMs

\* src/server.js:1099-1101: a snapshot is due in this callback
SnapDue(last, dt) == last + dt >= SnapEveryMs

\* src/server.js:1099-1105: the Game after the snapshot took its toast
Snapped(g, last, dt) == IF SnapDue(last, dt) THEN [g EXCEPT !.toast = ""] ELSE g

\* src/server.js:1107-1114
RoundEnd(g, dt) ==
    IF g.phase = "round_end"
    THEN IF RoundEndDue(g, dt) THEN nextRound([g EXCEPT !.endT = 0])
         ELSE [g EXCEPT !.endT = g.endT + dt]
    ELSE g

\* src/server.js:1091-1115: the interval callback
Tick ==
    /\ roomExists
    /\ loop
    /\ game # NoGame
    /\ ticksLeft > 0
    /\ \E g1 \in { stepGame(game, MaxSliceMs) } :
       \E g3 \in { RoundEnd(Snapped(g1, lastSnap, MaxSliceMs), MaxSliceMs) } :
           /\ RoundEndDue(g1, MaxSliceMs) => g1.round < MaxRound
           /\ game' = g3
           /\ lastSnap' = IF SnapDue(lastSnap, MaxSliceMs) THEN 0
                          ELSE lastSnap + MaxSliceMs
           /\ lastEvent' = Event("tick", 0, NoId, FALSE,
                                 (IF SnapDue(lastSnap, MaxSliceMs)
                                  THEN << g1.toast >> ELSE << >>)
                                 \o (IF RoundEndDue(g1, MaxSliceMs)
                                     THEN << g3.toast >> ELSE << >>))
    /\ ticksLeft' = ticksLeft - 1
    /\ UNCHANGED << wsOpen, wsRoom, wsPid, roomExists, clients, hostId, lobby, loop,
                    nextId, flicksLeft, reloadsLeft >>

Next ==
    \/ \E ws \in WS : Join(ws)
    \/ \E ws \in WS : SetName(ws)
    \/ \E ws \in WS, m \in Modes : SetMode(ws, m)
    \/ \E ws \in WS, c \in Chars : Pick(ws, c)
    \/ \E ws \in WS, v \in BOOLEAN : Ready(ws, v)
    \/ \E ws \in WS : Start(ws)
    \/ \E ws \in WS : Reset(ws)
    \/ \E ws \in WS : HostReloadMap(ws)
    \/ \E ws \in WS : HostResetPositions(ws)
    \/ \E ws \in WS, kind \in {"flick", "other"}, v \in AllFlickVecs : Act(ws, kind, v)
    \/ \E ws \in WS : Dash(ws)
    \/ \E ws \in WS : Close(ws)
    \/ Tick

Spec == Init /\ [][Next]_vars

\* the lobby, the host commands and the loop, without gameplay input
NextLobby ==
    \/ \E ws \in WS : Join(ws)
    \/ \E ws \in WS, m \in Modes : SetMode(ws, m)
    \/ \E ws \in WS, c \in Chars : Pick(ws, c)
    \/ \E ws \in WS, v \in BOOLEAN : Ready(ws, v)
    \/ \E ws \in WS : Start(ws)
    \/ \E ws \in WS : Reset(ws)
    \/ \E ws \in WS : HostReloadMap(ws)
    \/ \E ws \in WS : HostResetPositions(ws)
    \/ \E ws \in WS : Close(ws)
    \/ Tick

SpecLobby == Init /\ [][NextLobby]_vars

\* The overlap test as a function: a circle and a rectangle are drawn, and
\* one call of circleRectCollide (src/server.js:561-567) reports on them.
OverlapCentres == (0 - OverlapReach - 1)..(OverlapSpan + OverlapReach + 2)
InitOverlap ==
    /\ wsOpen = [w \in WS |-> TRUE]
    /\ wsRoom = [w \in WS |-> FALSE]
    /\ wsPid = [w \in WS |-> NoId]
    /\ roomExists = FALSE
    /\ clients = << >>
    /\ hostId = NoId
    /\ lobby = NewLobby
    /\ game = NoGame
    /\ loop = FALSE
    /\ lastSnap = 0
    /\ nextId = 1
    /\ flicksLeft = 0
    /\ reloadsLeft = 0
    /\ ticksLeft = 1
    /\ \E cx \in OverlapCentres, cy \in OverlapCentres, cr \in 0..OverlapReach,
          rx \in 0..1, rw \in 0..OverlapSpan, rh \in 0..OverlapSpan :
           lastEvent = [t |-> "shapes", cx |-> cx, cy |-> cy, cr |-> cr,
                        rx |-> rx, ry |-> 0, rw |-> rw, rh |-> rh]

Overlap ==
    /\ lastEvent.t = "shapes"
    /\ ticksLeft > 0
    /\ lastEvent' = [t |-> "overlap", cx |-> lastEvent.cx, cy |-> lastEvent.cy,
                     cr |-> lastEvent.cr, rx |-> lastEvent.rx, ry |-> lastEvent.ry,
                     rw |-> lastEvent.rw, rh |-> lastEvent.rh,
                     hit |-> circleRectCollide(lastEvent.cx, lastEvent.cy, lastEvent.cr,
                                               lastEvent.rx, lastEvent.ry,
                                               lastEvent.rw, lastEvent.rh)]
    /\ ticksLeft' = ticksLeft - 1
    /\ UNCHANGED << wsOpen, wsRoom, wsPid, roomExists, clients, hostId, lobby, game, loop,
                    lastSnap, nextId, flicksLeft, reloadsLeft >>

SpecOverlap == InitOverlap /\ [][Overlap]_vars

\* texts a client can send: not JSON, and JSON values that are no message
Payloads == {"{", "null", "5", "[]", "{}"}

\* JSON.parse(buf.toString()) of src/server.js:1130: whether the text parses,
\* and the kind of value it yields
JSONParse(text) ==
    CASE text = "null" -> [ok |-> TRUE, kind |-> "null"]
      [] text = "5" -> [ok |-> TRUE, kind |-> "number"]
      [] text = "[]" -> [ok |-> TRUE, kind |-> "array"]
      [] text = "{}" -> [ok |-> TRUE, kind |-> "object"]
      [] OTHER -> [ok |-> FALSE, kind |-> "none"]

\* src/server.js:1128-1331 for a text that is no message. A text that does
\* not parse returns from the catch (1130). Reading msg.t of null (1133)
\* raises a TypeError that nothing catches. Of every other value msg.t is
\* undefined: no branch of the handler is taken.
Message(ws, text) ==
    /\ wsOpen[ws]
    /\ LET msg == JSONParse(text)
       IN  IF ~msg.ok THEN Ignore("malformed", ws)
           ELSE IF msg.kind = "null" THEN Ignore("TypeError", ws)
           ELSE Ignore("malformed", ws)

\* the lobby and the loop, with texts that are no message
NextMessages ==
    \/ \E ws \in WS : Join(ws)
    \/ \E ws \in WS, v \in BOOLEAN : Ready(ws, v)
    \/ \E ws \in WS : Start(ws)
    \/ \E ws \in WS : Close(ws)
    \/ Tick
    \/ \E ws \in WS, text \in Payloads : Message(ws, text)

SpecMessages == Init /\ [][NextMessages]_vars

\* a field of a parsed "act" message: missing, or a JSON value
Field(kind, n, s) == [kind |-> kind, n |-> n, s |-> s]
FlickFields ==
    { Field("absent", 0, ""), Field("number", 0, ""), Field("number", 900, ""),
      Field("number", -2600, ""), Field("string", 0, "900"), Field("string", 0, "abc"),
      Field("object", 0, "") }

\* a JavaScript number: NaN, or the integer n
Num(n) == [nan |-> FALSE, n |-> n]
NaN == [nan |-> TRUE, n |-> 0]

\* Number(f || 0) of src/server.js:1305-1306.  A missing field, 0 and ""
\* are falsy and give 0; a string gives the number it spells, or NaN; an
\* object gives NaN.
NumberOf(f) ==
    CASE f.kind = "absent" -> Num(0)
      [] f.kind = "number" -> Num(f.n)
      [] f.kind = "string" -> IF f.s = "" THEN Num(0)
                              ELSE IF f.s = "900" THEN Num(900)
                              ELSE NaN
      [] OTHER -> NaN

\* src/server.js:32 on a JavaScript number: Math.min and Math.max of a NaN
\* are NaN
clampNumber(v, a, b) == IF v.nan THEN v ELSE Num(clamp(v.n, a, b))

\* src/server.js:949-965 for JavaScript numbers: a NaN added to a velocity
\* gives NaN
applyFlickNumber(g, pid, vx, vy) ==
    IF pid \notin DOMAIN g.players THEN g
    ELSE IF ~vx.nan /\ ~vy.nan /\ ~NaNSpeed(g.players[pid])
    THEN applyFlick(g, pid, vx.n, vy.n)
    ELSE
    LET p == g.players[pid]
        first == p.charId = "agouti" /\ p.firstLaunchAvailable
        boost == IF first THEN 122 ELSE 100
        nan == p.nan \cup (IF vx.nan THEN {"vx"} ELSE {})
                     \cup (IF vy.nan THEN {"vy"} ELSE {})
    IN  [g EXCEPT !.players[pid] =
            [p EXCEPT !.firstLaunchAvailable = IF first THEN FALSE ELSE @,
                      !.vx = IF "vx" \in nan THEN 0 ELSE p.vx + TDiv(vx.n * boost, 100),
                      !.vy = IF "vy" \in nan THEN 0 ELSE p.vy + TDiv(vy.n * boost, 100),
                      !.nan = nan,
                      !.canDashThisTurn = TRUE, !.dashUsedThisTurn = FALSE,
                      !.bounced = FALSE]]

\* src/server.js:1296-1315 for the fields vx and vy as the client sent them;
\* v of the event is the vector handed to applyFlick
ActPayload(ws, fx, fy) ==
    /\ InRoom(ws)
    /\ Young(game, InputTicks) \/ LastCall(game)
    /\ IF ~actGate(game, wsPid[ws]) THEN Ignore("act", ws)
       ELSE /\ flicksLeft > 0
            /\ LET vx == clampNumber(NumberOf(fx), -FlickLimit, FlickLimit)
                   vy == clampNumber(NumberOf(fy), -FlickLimit, FlickLimit)
                   g == [startResolving(applyFlickNumber(game, wsPid[ws], vx, vy))
                           EXCEPT !.toast = "launched",
                                  !.launcher = wsPid[ws], !.dashes = 0]
               IN  /\ game' = g
                   /\ lastEvent' = [t |-> "flick", ws |-> ws, pid |-> wsPid[ws],
                                    err |-> FALSE, snaps |-> << g.toast >>,
                                    v |-> << vx, vy >>]
            /\ flicksLeft' = flicksLeft - 1
            /\ UNCHANGED << wsOpen, wsRoom, wsPid, roomExists, clients, hostId, lobby,
                            loop, lastSnap, nextId, reloadsLeft, ticksLeft >>

(***************************************************************************)
(* Started games.  The room as "start" leaves it (src/server.js:1221-1249) *)
(* after the first n sockets joined in order, picked and readied, and as k *)
(* host_reload_map commands sent before the first tick leave it            *)
(* (src/server.js:1264-1282): race level k + 1, or boss stage k.           *)
(***************************************************************************)
RECURSIVE Reloaded(_, _)
Reloaded(g, k) == IF k = 0 THEN g ELSE Reloaded(ReloadMap(g), k - 1)

\* the room of the first n sockets, started, with the Game g
RoomOf(g, n, picks, flicks, reloads, ticks) ==
    /\ wsOpen = [w \in WS |-> TRUE]
    /\ wsRoom = [w \in WS |-> w <= n]
    /\ wsPid = [w \in WS |-> IF w <= n THEN w ELSE NoId]
    /\ roomExists = TRUE
    /\ clients = [i \in 1..n |-> [ws |-> i, pid |-> i]]
    /\ hostId = 1
    /\ lobby = [mode |-> g.mode, started |-> TRUE, picks |-> picks,
                ready |-> [i \in Ids |-> i <= n]]
    /\ game = g
    /\ loop = TRUE
    /\ lastSnap = 0
    /\ nextId = n + 1
    /\ flicksLeft = flicks
    /\ reloadsLeft = reloads
    /\ ticksLeft = ticks
    /\ lastEvent = Event("start", 1, 1, FALSE, << g.toast >>)

Started(mode, n, picks, k, flicks, reloads, ticks) ==
    \E g \in { Reloaded(makeGame(mode, [i \in 1..n |-> i], picks), k) } :
        RoomOf(g, n, picks, flicks, reloads, ticks)

RacePicks == [i \in Ids |-> IF i = 1 THEN "manicou" ELSE IF i = 2 THEN "hummingbird"
                                                    ELSE "none"]
SoloPicks == [i \in Ids |-> IF i = 1 THEN "agouti" ELSE "none"]
BossPicks == [i \in Ids |-> IF i = 1 THEN "hummingbird" ELSE "none"]
FrogPicks == [i \in Ids |-> IF i = 1 THEN "frog" ELSE "none"]

\* a race of two frogs
PhotoPicks == [i \in Ids |-> "frog"]
InitPhoto == Started("race", 2, PhotoPicks, 0, PhotoFlicks, 0, PhotoTicks)

\* the totem_jaguar stage (STUN_THEN_PUNISH), one hummingbird
InitStun == Started("boss", 1, BossPicks, 4, StunFlicks, 0, StunTicks)

\* boss stages explored: armored_crab, spirit_owl, storm_manta
BossStages == {0, 1, 3}

\* two players race from level 1, or one player races into round 2
InitRace ==
    \/ Started("race", 2, RacePicks, 0, MaxFlicks, MaxReloads, RaceTicks)
    \/ Started("race", 1, SoloPicks, 0, MaxFlicks, MaxReloads, SoloTicks)

\* one player races into round 2 and flicks there; the turn runs to its clock
InitSettle == Started("race", 1, SoloPicks, 0, SettleFlicks, 0, SettleTicks)

\* one player flicks once on a boss stage
InitBoss == \E k \in BossStages : Started("boss", 1, BossPicks, k, 1, 0, BossTicks)

\* one player on the first boss stage, and a host that reloads the arena
InitReload == Started("boss", 1, FrogPicks, 0, MaxFlicks, MaxReloads, ReloadTicks)

\* the messages and callbacks of a started game
NextPlay ==
    \/ \E ws \in WS : Join(ws)
    \/ \E ws \in WS : HostReloadMap(ws)
    \/ \E ws \in WS : HostResetPositions(ws)
    \/ \E ws \in WS, kind \in {"flick", "other"}, v \in AllFlickVecs : Act(ws, kind, v)
    \/ \E ws \in WS : Dash(ws)
    \/ \E ws \in WS : Close(ws)
    \/ Tick

\* one connection plays alone
NextSolo ==
    \/ \E ws \in WS, kind \in {"flick", "other"}, v \in AllFlickVecs : Act(ws, kind, v)
    \/ \E ws \in WS : Dash(ws)
    \/ Tick

\* one connection plays alone and reloads the stage
NextReload ==
    \/ \E ws \in WS : HostReloadMap(ws)
    \/ \E ws \in WS, kind \in {"flick", "other"}, v \in AllFlickVecs : Act(ws, kind, v)
    \/ \E ws \in WS : Dash(ws)
    \/ Tick

SpecRace == InitRace /\ [][NextPlay]_vars
SpecReload == InitReload /\ [][NextReload]_vars
SpecSettle == InitSettle /\ [][NextSolo]_vars
SpecBoss == InitBoss /\ [][NextSolo]_vars
SpecStun == InitStun /\ [][NextSolo]_vars
SpecPhoto == InitPhoto /\ [][NextSolo]_vars

\* one connection races alone and sends raw payloads
InitPayload == Started("race", 1, SoloPicks, 0, PayloadFlicks, 0, PayloadTicks)

NextPayload ==
    \/ \E ws \in WS, fx \in FlickFields, fy \in FlickFields : ActPayload(ws, fx, fy)
    \/ Tick

SpecPayload == InitPayload /\ [][NextPayload]_vars

\* two hummingbirds race: each holds a dash charge
DashPicks == [i \in Ids |-> IF i \in {1, 2} THEN "hummingbird" ELSE "none"]
InitDash == Started("race", 2, DashPicks, 0, MaxFlicks, MaxReloads, RaceTicks)

NextDash ==
    \/ \E ws \in WS : HostReloadMap(ws)
    \/ \E ws \in WS : HostResetPositions(ws)
    \/ \E ws \in WS, kind \in {"flick", "other"}, v \in AllFlickVecs : Act(ws, kind, v)
    \/ \E ws \in WS : Dash(ws)
    \/ \E ws \in WS : Close(ws)
    \/ Tick

SpecDash == InitDash /\ [][NextDash]_vars

\* a race of three manicous; the connections of players 1 and 2 send flicks
\* and close, player 3 stays and lets its clock run
TrioPicks == [i \in 1..3 |-> "manicou"]
InitTrio == Started("race", 3, TrioPicks, 0, MaxFlicks, 0, SkipTicks)

NextTrio ==
    \/ \E ws \in WS, kind \in {"flick", "other"}, v \in AllFlickVecs : Act(ws, kind, v)
    \/ \E ws \in WS : Close(ws)
    \/ Tick

SpecTrio == InitTrio /\ [][NextTrio]_vars

(***************************************************************************)
(* The damage rule alone.  Every boss, with its weak spot at each of the   *)
(* four angles updateBoss gives it (src/server.js:676-679), takes hits of  *)
(* every source tag and angle through bossTakeDamage.                      *)
(***************************************************************************)
Sources == {"DASH", "PARRY", "RICOCHET_OK"}
HitAngles == { 15 * k - 180 : k \in 1..24 } \cup {NoAngle}

\* the boss of stage k after q weak-spot periods
InitDamage ==
    \E k \in 0..(Len(BOSS_DEFS) - 1), q \in 0..3 :
        \E g \in { Reloaded(makeGame("boss", << 1 >>, BossPicks), k) } :
            RoomOf([g EXCEPT !.boss = BossWeakSpot([g.boss EXCEPT
                                         !.t = q * g.boss.weakCycleS])],
                   1, BossPicks, 0, 0, MaxHits)

\* one call of bossTakeDamage (src/server.js:640-664)
Hit(source, hitAngle) ==
    /\ game # NoGame
    /\ ticksLeft > 0
    /\ game' = bossTakeDamage(game, 1, source, hitAngle)
    /\ lastEvent' = [t |-> "damage", source |-> source, hitAngle |-> hitAngle]
    /\ ticksLeft' = ticksLeft - 1
    /\ UNCHANGED << wsOpen, wsRoom, wsPid, roomExists, clients, hostId, lobby, loop,
                    lastSnap, nextId, flicksLeft, reloadsLeft >>

NextDamage == \E source \in Sources, hitAngle \in HitAngles : Hit(source, hitAngle)

SpecDamage == InitDamage /\ [][NextDamage]_vars

\* A boss worn down to nothing: two frogs on any stage of the roster, strikes
\* that land while the round is played, stones thrown at the shield, and the
\* timer that pays the reward and loads the next round; the host may reload
\* the arena.
InitHp == \E k \in 0..(Len(BOSS_DEFS) - 1) : Started("boss", 2, PhotoPicks, k, HpStrikes, MaxReloads, HpTicks)

HpAngles == {0, 90, NoAngle}

\* one call of bossTakeDamage from the collision loop or the dash handler
\* (src/server.js:879, 995), both of which run in phase play only; the event
\* keeps the hit points the boss had before the call
Strike(source, hitAngle) ==
    /\ game # NoGame
    /\ game.phase = "play"
    /\ game.boss # NoBoss
    /\ Young(game, InputTicks)
    /\ flicksLeft > 0
    /\ game' = bossTakeDamage(game, 1, source, hitAngle)
    /\ lastEvent' = [t |-> "damage", source |-> source, hitAngle |-> hitAngle,
                     hp |-> game.boss.hp]
    /\ flicksLeft' = flicksLeft - 1
    /\ UNCHANGED << wsOpen, wsRoom, wsPid, roomExists, clients, hostId, lobby, loop,
                    lastSnap, nextId, reloadsLeft, ticksLeft >>

\* a thrown stone reaches the boss at speed (src/server.js:721-747)
StoneArrives(k) ==
    /\ game # NoGame
    /\ game.boss # NoBoss
    /\ Young(game, InputTicks)
    /\ flicksLeft > 0
    /\ k \in 1..Len(game.items)
    /\ game.items[k].type = "stone"
    /\ game' = StoneHit(game, k, [game.items[k] EXCEPT !.x = BossX(game.boss),
                                                       !.y = BossY(game.boss),
                                                       !.vx = 2 * 70, !.vy = 0])
    /\ lastEvent' = [t |-> "stone", k |-> k]
    /\ flicksLeft' = flicksLeft - 1
    /\ UNCHANGED << wsOpen, wsRoom, wsPid, roomExists, clients, hostId, lobby, loop,
                    lastSnap, nextId, reloadsLeft, ticksLeft >>

NextHp ==
    \/ \E source \in Sources, hitAngle \in HpAngles : Strike(source, hitAngle)
    \/ \E k \in 1..4 : StoneArrives(k)
    \/ \E ws \in WS : HostReloadMap(ws)
    \/ Tick

SpecHp == InitHp /\ [][NextHp]_vars

\* Turn and round bookkeeping of a race of up to RoundPlayers players: turns
\* end, a player arrives on the finish, the round-end delay runs out.
RoundPicks == [i \in 1..RoundPlayers |-> "agouti"]
InitRounds ==
    \E n \in 1..RoundPlayers :
        \E g \in { makeGame("race", [i \in 1..n |-> i], RoundPicks) } :
            RoomOf(g, n, RoundPicks, 0, 0, RoundSteps)

Kept == << wsOpen, wsRoom, wsPid, roomExists, clients, hostId, lobby, loop,
           lastSnap, nextId, flicksLeft, reloadsLeft >>

TurnSettles ==
    /\ game # NoGame /\ ticksLeft > 0
    /\ game.phase = "play"
    /\ game' = endTurn(game, "")
    /\ lastEvent' = [t |-> "settled", pid |-> game.activeId]
    /\ ticksLeft' = ticksLeft - 1
    /\ UNCHANGED Kept

Arrives(pid) ==
    /\ game # NoGame /\ ticksLeft > 0
    /\ pid \in DOMAIN game.players
    /\ game.phase = "play"
    /\ game' = RaceWin([game EXCEPT !.players[pid].x = game.finish.x + game.finish.w \div 2,
                                     !.players[pid].y = game.finish.y + game.finish.h \div 2])
    /\ lastEvent' = [t |-> "arrived", pid |-> pid]
    /\ ticksLeft' = ticksLeft - 1
    /\ UNCHANGED Kept

DelayOver ==
    /\ game # NoGame /\ ticksLeft > 0
    /\ game.phase = "round_end"
    /\ game' = nextRound([game EXCEPT !.endT = 0])
    /\ lastEvent' = [t |-> "next_round", pid |-> NoId]
    /\ ticksLeft' = ticksLeft - 1
    /\ UNCHANGED Kept

NextRounds ==
    \/ TurnSettles
    \/ \E pid \in 1..RoundPlayers : Arrives(pid)
    \/ DelayOver

SpecRounds == InitRounds /\ [][NextRounds]_vars

(***************************************************************************)
(* The boss-turn variant of the server (src/unnamed/part_002), boss mode,  *)
(* first stage: the Armored Crab King in the Temple Clearing.  Times are   *)
(* in ms, positions in px, velocities in px/s, angles in degrees.          *)
(***************************************************************************)
BossTurnMs == 12000
BossActsEvery == 2
MaxSpeedBT == 1600
BossMaxSpeed == 1400
FlickLimitBT == 2400
DashPowerBT == 560
\* 0.20 s; the 1 stands for the residue (1.4e-17) that four subtractions of
\* 0.05 leave of 0.20 in floating point, which still counts as an open window
DashWindowBT == 201
OutMargin == 400
BossHitKnock == 420
BodyKnock == 220
\* bossActionT is a sum of 0.05 s slices: eighteen of them are 0.9000000000000002
\* (not < 0.9) and twenty-six are 1.3000000000000005 (> 1.3)
ChargeMs == 900
BossRestMs == 1300

\* src/unnamed/part_002:294-335, BOSS_ARENAS[0]
Arena1 ==
    [bounds |-> Rect(40, 40, 1920, 1120),
     walls |-> << Rect(40, 40, 1920, 30), Rect(40, 1130, 1920, 30),
                  Rect(40, 40, 30, 1120), Rect(1930, 40, 30, 1120),
                  Rect(520, 240, 360, 36), Rect(520, 240, 36, 420),
                  Rect(880, 420, 420, 36), Rect(1200, 720, 520, 36),
                  Rect(1200, 420, 36, 300), Rect(920, 720, 280, 36) >>,
     pads |-> << Rect(260, 520, 220, 18), Rect(1480, 520, 220, 18) >>,
     hazards |-> << [x |-> 980, y |-> 260, r |-> 18], [x |-> 980, y |-> 940, r |-> 18] >>,
     items |-> << [type |-> "dash", x |-> 520, y |-> 940, r |-> 14, takenBy |-> NoId],
                  [type |-> "dash", x |-> 1480, y |-> 260, r |-> 14, takenBy |-> NoId],
                  [type |-> "shield", x |-> 980, y |-> 600, r |-> 14, takenBy |-> NoId] >>,
     spawns |-> << Pt(180, 520), Pt(180, 620), Pt(180, 720), Pt(180, 820) >>,
     bossSpawn |-> Pt(1680, 600)]

\* src/unnamed/part_002:427-436, BOSSES[0]
CrabKing ==
    [id |-> "armored_crab", hp |-> 18,
     rules |-> [dashOnly |-> TRUE, weakspot |-> FALSE, parryOnly |-> FALSE],
     attack |-> "charge"]

\* src/unnamed/part_002:471-511
makePlayerBT(pid, charId, x, y) ==
    [id |-> pid, charId |-> charId,
     x |-> x, y |-> y, vx |-> 0, vy |-> 0, r |-> 18,
     score |-> 0, coins |-> 0,
     hpMax |-> 6, hp |-> 6, lives |-> 3,
     firstLaunchAvailable |-> TRUE,
     dashCharges |-> IF charId = "hummingbird" THEN 1 ELSE 0,
     shield |-> (charId = "manicou"),
     magnetT |-> 0,
     canDashThisTurn |-> FALSE, dashUsedThisTurn |-> FALSE, dashStrikeWindow |-> 0,
     bounceKeep |-> IF charId = "frog" THEN 90 ELSE 78,
     finished |-> FALSE]

\* src/unnamed/part_002:678-680: the spawn of the player at index idx (from 0)
\* of turnOrder
SpawnOf(g, idx) ==
    IF idx >= 0 /\ idx < Len(g.spawns) THEN g.spawns[idx + 1]
    ELSE Pt(120, 240 + idx * 70)

\* src/unnamed/part_002:747-835, for the first boss and its arena
loadBossStage(g, bossIndex) ==
    LET ids == g.turnOrder
        g1 == [g EXCEPT !.bossIndex = bossIndex,
                        !.bounds = Arena1.bounds,
                        !.walls = Arena1.walls,
                        !.pads = Arena1.pads,
                        !.hazards = Arena1.hazards,
                        !.items = Arena1.items,
                        !.spawns = Arena1.spawns]
        reset(pid) ==
            LET p == g.players[pid]
                idx == IndexOf(ids, pid) - 1
                s == IF idx < Len(Arena1.spawns) THEN Arena1.spawns[idx + 1]
                     ELSE Pt(180, 520 + idx * 70)
            IN  IF idx < 0 THEN p
                ELSE [p EXCEPT !.x = s.x, !.y = s.y, !.vx = 0, !.vy = 0,
                               !.finished = FALSE,
                               !.hpMax = 6,
                               !.hp = Min(6, IF p.hp = 0 THEN 6 ELSE p.hp),
                               !.firstLaunchAvailable = TRUE,
                               !.magnetT = 0,
                               !.dashUsedThisTurn = FALSE,
                               !.dashStrikeWindow = 0,
                               !.canDashThisTurn = FALSE,
                               !.dashCharges = IF p.charId = "hummingbird"
                                               THEN Max(p.dashCharges, 1) ELSE @,
                               !.shield = IF p.charId = "manicou" THEN TRUE ELSE @]
    IN  [g1 EXCEPT !.boss = [id |-> CrabKing.id, hpMax |-> CrabKing.hp, hp |-> CrabKing.hp,
                             rules |-> CrabKing.rules, attack |-> CrabKing.attack,
                             x |-> Arena1.bossSpawn.x, y |-> Arena1.bossSpawn.y, r |-> 46,
                             vx |-> 0, vy |-> 0, bounceKeep |-> 86,
                             weakAngle |-> 0, weakArc |-> 60,
                             ringActive |-> FALSE, ringR |-> 0, ringX |-> 0, ringY |-> 0],
                   !.players = [pid \in DOMAIN g.players |-> reset(pid)],
                   !.turnIndex = 0,
                   !.activeId = ids[1],
                   !.turnState = "aim",
                   !.turnMsLeft = TurnMs,
                   !.phase = "play",
                   !.winnerId = NoId,
                   !.turnCount = 0,
                   !.bossPending = FALSE,
                   !.bossActionT = 0,
                   !.toast = "appeared",
                   !.shake = 0,
                   !.shakeT = 0]

\* src/unnamed/part_002:513-576, mode boss
makeGameBT(playerIds, picks) ==
    LET n == Len(playerIds)
        g == [mode |-> "boss", round |-> 1, phase |-> "play", winnerId |-> NoId,
              turnOrder |-> playerIds, turnIndex |-> 0, activeId |-> playerIds[1],
              turnState |-> "aim", turnMsLeft |-> TurnMs,
              turnCount |-> 0, bossActsEvery |-> BossActsEvery,
              bossPending |-> FALSE, bossActionT |-> 0,
              bounds |-> Rect(20, 20, 920, 500),
              walls |-> << >>, pads |-> << >>, hazards |-> << >>, items |-> << >>,
              spawns |-> << >>,
              players |-> [pid \in { playerIds[i] : i \in 1..n } |->
                  makePlayerBT(pid, IF picks[pid] = "none" THEN "agouti" ELSE picks[pid],
                               120, 240 + (IndexOf(playerIds, pid) - 1) * 70)],
              pkeys |-> playerIds,
              boss |-> NoBoss, bossIndex |-> 0,
              toast |-> "", shake |-> 0, shakeT |-> 0, endT |-> 0]
    IN  loadBossStage(g, 0)

\* src/unnamed/part_002:601-631.  ent has x, y, vx, vy, r, bounceKeep (percent).
resolveCircleRectBT(ent, w) ==
    LET dx0 == ent.x - clamp(ent.x, w.x, w.x + w.w)
        dy0 == ent.y - clamp(ent.y, w.y, w.y + w.h)
        inside == dx0 = 0 /\ dy0 = 0
        dx == IF inside THEN 0 ELSE dx0
        dy == IF inside THEN -1 ELSE dy0
        dist == IF inside THEN 1000 ELSE ISqrt(1000000 * (dx * dx + dy * dy))
        overlap == ent.r * 1000 - dist
        ux == TDiv(dx * 1000000, dist)
        uy == TDiv(dy * 1000000, dist)
        dot == TDiv(ent.vx * ux + ent.vy * uy, 1000)
        rvx == ent.vx - TDiv(2 * dot * ux, 1000)
        rvy == ent.vy - TDiv(2 * dot * uy, 1000)
    IN  IF overlap > 0
        THEN [ent EXCEPT !.x = ent.x + UDiv(ux * overlap, 1000000),
                         !.y = ent.y + UDiv(uy * overlap, 1000000),
                         !.vx = TDiv(TDiv(rvx * ent.bounceKeep, 100) * 92, 100),
                         !.vy = TDiv(TDiv(rvy * ent.bounceKeep, 100) * 92, 100)]
        ELSE ent

RECURSIVE WallLoopBT(_, _, _)
\* src/unnamed/part_002:1089-1091, 1108-1110, 1213-1215
WallLoopBT(ent, walls, i) ==
    IF i > Len(walls) THEN ent
    ELSE IF circleRectCollide(ent.x, ent.y, ent.r,
                              walls[i].x, walls[i].y, walls[i].w, walls[i].h)
    THEN WallLoopBT(resolveCircleRectBT(ent, walls[i]), walls, i + 1)
    ELSE WallLoopBT(ent, walls, i + 1)

\* src/unnamed/part_002:667-674
outOfBounds(g, ent) ==
    \/ ent.x < g.bounds.x - OutMargin
    \/ ent.y < g.bounds.y - OutMargin
    \/ ent.x > g.bounds.x + g.bounds.w + OutMargin
    \/ ent.y > g.bounds.y + g.bounds.h + OutMargin

\* src/unnamed/part_002:1126-1130, 1164-1167 and 693-703: a player whose hp
\* has reached 0 loses a life
LoseLife(p, perks) ==
    IF p.hp > 0 THEN p
    ELSE IF p.lives - 1 <= 0 THEN [p EXCEPT !.lives = 0, !.hp = 0]
    ELSE [p EXCEPT !.lives = p.lives - 1,
                   !.hp = p.hpMax,
                   !.dashCharges = IF perks /\ p.charId = "hummingbird"
                                   THEN Max(p.dashCharges, 1) ELSE @,
                   !.shield = IF perks /\ p.charId = "manicou" THEN TRUE ELSE @]

\* src/unnamed/part_002:676-705
respawnPlayer(g, pid, dmgReason) ==
    LET p == g.players[pid]
        spawn == SpawnOf(g, IndexOf(g.turnOrder, pid) - 1)
        p1 == [p EXCEPT !.x = spawn.x, !.y = spawn.y, !.vx = 0, !.vy = 0]
    IN  IF g.mode = "boss"
        THEN [g EXCEPT !.players[pid] = LoseLife([p1 EXCEPT !.hp = Max(0, p.hp - 2)], TRUE),
                       !.toast = dmgReason,
                       !.shake = Max(g.shake, 10),
                       !.shakeT = Max(g.shakeT, 180)]
        ELSE [g EXCEPT !.players[pid] = p1]

\* src/unnamed/part_002:837-859
bossTakeDamageBT(g, amount, source, hitAngle) ==
    LET boss == g.boss
        diff == Abs(((hitAngle - boss.weakAngle + 540) % 360) - 180)
    IN  IF boss = NoBoss THEN g
        ELSE IF boss.hp <= 0 THEN g
        ELSE IF boss.rules.parryOnly /\ source # "PARRY" THEN g
        ELSE IF boss.rules.dashOnly /\ source # "DASH" THEN g
        ELSE IF boss.rules.weakspot /\ 2 * diff > boss.weakArc THEN g
        ELSE [g EXCEPT !.boss.hp = Max(0, boss.hp - amount),
                       !.shake = Max(g.shake, 14 + amount * 2),
                       !.shakeT = Max(g.shakeT, 200),
                       !.toast = "Boss hit!"]

\* src/unnamed/part_002:861-877
applyFlickBT(g, pid, vx, vy) ==
    LET p == g.players[pid]
        first == p.charId = "agouti" /\ p.firstLaunchAvailable
        boost == IF first THEN 122 ELSE 100
        p1 == clampSpeed([p EXCEPT !.firstLaunchAvailable = IF first THEN FALSE ELSE @,
                                   !.vx = p.vx + TDiv(vx * boost, 100),
                                   !.vy = p.vy + TDiv(vy * boost, 100)], MaxSpeedBT)
    IN  [g EXCEPT !.players[pid] =
            [p1 EXCEPT !.canDashThisTurn = TRUE, !.dashUsedThisTurn = FALSE]]

\* src/unnamed/part_002:879-886: the dash is accepted
dashOkBT(g, pid) ==
    /\ pid \in DOMAIN g.players
    /\ g.players[pid].canDashThisTurn
    /\ ~g.players[pid].dashUsedThisTurn
    /\ g.players[pid].dashCharges > 0
    /\ Speed2(g.players[pid]) > 0

\* src/unnamed/part_002:888-916, for an accepted dash
applyDashBT(g, pid) ==
    LET p == g.players[pid]
        sp == Hypot10(p.vx, p.vy)
        p1 == [p EXCEPT !.vx = p.vx + TDiv(p.vx * DashPowerBT * 10, sp),
                        !.vy = p.vy + TDiv(p.vy * DashPowerBT * 10, sp),
                        !.dashCharges = p.dashCharges - 1,
                        !.dashUsedThisTurn = TRUE,
                        !.dashStrikeWindow = DashWindowBT]
        g1 == [g EXCEPT !.players[pid] = p1]
        boss == g.boss
        hitRing == Abs(Hypot10(p.x - boss.ringX, p.y - boss.ringY) - boss.ringR * 10) < 280
    IN  IF g.mode = "boss" /\ boss # NoBoss /\ boss.rules.parryOnly /\ boss.ringActive
           /\ hitRing
        THEN [bossTakeDamageBT([g1 EXCEPT !.boss.ringActive = FALSE], 2, "PARRY",
                               Atan2Deg(p.y - boss.y, p.x - boss.x))
                EXCEPT !.toast = "Parry! Counter hit!",
                       !.shake = Max(@, 18),
                       !.shakeT = Max(@, 240)]
        ELSE g1

\* src/unnamed/part_002:923-950
beginBossTurn(g) ==
    IF g.boss = NoBoss THEN g
    ELSE IF g.boss.hp <= 0 THEN g
    ELSE LET g1 == [g EXCEPT !.turnState = "boss_turn",
                             !.turnMsLeft = BossTurnMs,
                             !.bossPending = FALSE,
                             !.bossActionT = 0]
             g2 == IF g.boss.rules.weakspot
                   THEN [g1 EXCEPT !.boss.weakAngle =
                            90 * ((g.turnCount \div g.bossActsEvery) % 4)]
                   ELSE g1
         IN  IF g.boss.rules.parryOnly
             THEN [g2 EXCEPT !.boss.ringActive = TRUE,
                             !.boss.ringR = 10,
                             !.boss.ringX = g.boss.x,
                             !.boss.ringY = g.boss.y,
                             !.toast = "Shock ring!"]
             ELSE [g2 EXCEPT !.toast = "is acting"]

\* an end of the boss turn that leaves the boss its velocity
endBossTurnMoving(g) ==
    LET ti == (g.turnIndex + 1) % Len(g.turnOrder)
    IN  [g EXCEPT !.turnState = "aim",
                  !.turnMsLeft = TurnMs,
                  !.turnIndex = ti,
                  !.activeId = g.turnOrder[ti + 1]]

\* src/unnamed/part_002:952-965
endBossTurn(g) ==
    LET ti == (g.turnIndex + 1) % Len(g.turnOrder)
        g1 == IF g.boss = NoBoss THEN g ELSE [g EXCEPT !.boss.vx = 0, !.boss.vy = 0]
    IN  [g1 EXCEPT !.turnState = "aim",
                   !.turnMsLeft = TurnMs,
                   !.turnIndex = ti,
                   !.activeId = g.turnOrder[ti + 1]]

\* src/unnamed/part_002:967-992
endPlayerTurn(g, reason) ==
    LET alive == g.mode = "boss" /\ g.boss # NoBoss /\ g.boss.hp > 0
        g1 == [g EXCEPT !.turnState = "aim",
                        !.turnMsLeft = TurnMs,
                        !.turnCount = g.turnCount + 1]
        g2 == [g1 EXCEPT !.bossPending = IF alive /\ g1.turnCount % g.bossActsEvery = 0
                                         THEN TRUE ELSE @,
                         !.toast = IF reason # "" THEN reason ELSE @]
        ti == (g.turnIndex + 1) % Len(g.turnOrder)
    IN  IF g2.mode = "boss" /\ g2.bossPending THEN beginBossTurn(g2)
        ELSE [g2 EXCEPT !.turnIndex = ti, !.activeId = g.turnOrder[ti + 1]]

RECURSIVE Pow990(_)
\* 0.99^n to 1/10000
Pow990(n) == IF n <= 0 THEN 10000 ELSE TDiv(Pow990(n - 1) * 990, 1000)

\* a player can be hit: src/unnamed/part_002:1015, 1143, 1275
Alive(p) == ~(p.lives <= 0 \/ p.hp <= 0)

RECURSIVE Closest(_, _, _)
\* src/unnamed/part_002:1010-1018: the closest player that can be hit (NoId:
\* none), best the closest of the keys before i
Closest(g, i, best) ==
    IF i > Len(g.pkeys) THEN best
    ELSE LET p == g.players[g.pkeys[i]]
             d2 == (p.x - g.boss.x) * (p.x - g.boss.x) + (p.y - g.boss.y) * (p.y - g.boss.y)
             q == g.players[best]
             b2 == (q.x - g.boss.x) * (q.x - g.boss.x) + (q.y - g.boss.y) * (q.y - g.boss.y)
         IN  IF Alive(p) /\ (best = NoId \/ d2 < b2) THEN Closest(g, i + 1, g.pkeys[i])
             ELSE Closest(g, i + 1, best)

\* the velocity of the boss scaled by pct / 100
Slowed(g, pct) ==
    [g EXCEPT !.boss.vx = TDiv(g.boss.vx * pct, 100), !.boss.vy = TDiv(g.boss.vy * pct, 100)]

\* the boss pulled towards the player pid at acc px/s^2 for dt
Pulled(g, pid, acc, dt) ==
    LET dx == g.players[pid].x - g.boss.x
        dy == g.players[pid].y - g.boss.y
        d == Hypot10(dx, dy)
    IN  IF d = 0 THEN g
        ELSE [g EXCEPT !.boss.vx = @ + TDiv(dx * acc * dt, 100 * d),
                       !.boss.vy = @ + TDiv(dy * acc * dt, 100 * d)]

\* src/unnamed/part_002:994-1056
bossDoAttack(g, dt) ==
    LET ringR == g.boss.ringR + TDiv(520 * dt, 1000)
        g1 == IF g.boss.ringActive
              THEN [g EXCEPT !.boss.ringR = ringR, !.boss.ringActive = ~(ringR > 900)]
              ELSE g
        g2 == [g1 EXCEPT !.bossActionT = g.bossActionT + dt]
        target == Closest(g2, 1, NoId)
    IN  IF target = NoId THEN Slowed(g2, 90)
        ELSE IF g2.boss.attack = "charge"
        THEN IF g2.bossActionT < ChargeMs THEN Pulled(g2, target, 900, dt) ELSE Slowed(g2, 92)
        ELSE IF g2.boss.attack = "shock"
        THEN IF g2.bossActionT < 1000 THEN Pulled(g2, target, 520, dt) ELSE Slowed(g2, 92)
        ELSE IF g2.boss.attack = "ring" THEN Slowed(g2, 92)
        ELSE g2

\* src/unnamed/part_002:1080-1092: the boss moves, slows and hits the walls
BossMoves(g, dt) ==
    LET b == g.boss
        f == Pow990((dt * 60) \div 1000)
        b1 == [b EXCEPT !.x = b.x + TDiv(b.vx * dt, 1000),
                        !.y = b.y + TDiv(b.vy * dt, 1000),
                        !.vx = TDiv(b.vx * f, 10000),
                        !.vy = TDiv(b.vy * f, 10000)]
    IN  [g EXCEPT !.boss = WallLoopBT(clampSpeed(b1, BossMaxSpeed), g.walls, 1)]

RECURSIVE HazardLoop(_, _, _, _)
\* src/unnamed/part_002:1116-1134 (lives: during the boss turn) and 1257-1265
HazardLoop(g, pid, i, lives) ==
    IF i > Len(g.hazards) THEN g
    ELSE LET p == g.players[pid]
             hz == g.hazards[i]
         IN  IF Near(p.x, p.y, hz.x, hz.y, p.r + hz.r) /\ g.mode = "boss"
             THEN IF p.shield
                  THEN HazardLoop([g EXCEPT !.players[pid].shield = FALSE], pid, i + 1, lives)
                  ELSE IF lives
                  THEN HazardLoop([g EXCEPT !.players[pid] =
                                       LoseLife([p EXCEPT !.hp = Max(0, p.hp - 1)], FALSE),
                                     !.toast = "Hazard hit!",
                                     !.shake = Max(g.shake, 10),
                                     !.shakeT = Max(g.shakeT, 160)], pid, i + 1, lives)
                  ELSE HazardLoop([g EXCEPT !.players[pid].hp = Max(0, p.hp - 1)],
                                  pid, i + 1, lives)
             ELSE HazardLoop(g, pid, i + 1, lives)

\* src/unnamed/part_002:1136 and 1267
Recovered(g, pid, reason) ==
    IF outOfBounds(g, g.players[pid]) THEN respawnPlayer(g, pid, reason) ELSE g

\* src/unnamed/part_002:1095-1137: one player drifts during the boss turn
Drift(g, pid, dt) ==
    LET p == g.players[pid]
        p1 == Integrate([p EXCEPT !.magnetT = Max(0, p.magnetT - dt)], dt, FrictionPow(dt))
        p2 == PadLoop(WallLoopBT(p1, g.walls, 1), g.pads, 1)
    IN  Recovered(HazardLoop([g EXCEPT !.players[pid] = p2], pid, 1, TRUE), pid,
                  "Out of bounds")

RECURSIVE DriftLoop(_, _, _)
DriftLoop(g, i, dt) ==
    IF i > Len(g.pkeys) THEN g ELSE DriftLoop(Drift(g, g.pkeys[i], dt), i + 1, dt)

\* the player pushed away from the boss at k px/s; d is their distance in
\* tenths of a px
KnockedBT(p, b, d, k) ==
    [p EXCEPT !.vx = p.vx + (IF d = 0 THEN (p.x - b.x) * k ELSE TDiv((p.x - b.x) * k * 10, d)),
              !.vy = p.vy + (IF d = 0 THEN (p.y - b.y) * k ELSE TDiv((p.y - b.y) * k * 10, d))]

\* src/unnamed/part_002:1145-1170: the boss hits one player
BossHit(g, pid) ==
    LET p == g.players[pid]
        b == g.boss
        p1 == KnockedBT(p, b, Hypot10(p.x - b.x, p.y - b.y), BossHitKnock)
        p2 == IF p.shield THEN [p1 EXCEPT !.shield = FALSE]
              ELSE [p1 EXCEPT !.hp = Max(0, p.hp - 2)]
        g1 == [g EXCEPT !.players[pid] = LoseLife(p2, FALSE),
                        !.toast = IF p.shield THEN "blocked the hit" ELSE "hit",
                        !.shake = Max(g.shake, 14),
                        !.shakeT = Max(g.shakeT, 220)]
    IN  IF ~Near(p.x, p.y, b.x, b.y, p.r + b.r) THEN g
        ELSE IF p2.hp <= 0 THEN respawnPlayer(g1, pid, "Lost a life")
        ELSE g1

\* src/unnamed/part_002:1172-1181
RingHit(g, pid) ==
    LET p == g.players[pid]
        b == g.boss
        hitRing == Abs(Hypot10(p.x - b.ringX, p.y - b.ringY) - b.ringR * 10) < 140
    IN  IF b.rules.parryOnly /\ b.ringActive /\ hitRing /\ p.dashStrikeWindow <= 0
        THEN IF p.shield THEN [g EXCEPT !.players[pid].shield = FALSE]
             ELSE [g EXCEPT !.players[pid].hp = Max(0, p.hp - 1)]
        ELSE g

RECURSIVE BossHitLoop(_, _)
\* src/unnamed/part_002:1140-1183
BossHitLoop(g, i) ==
    IF i > Len(g.pkeys) THEN g
    ELSE IF ~Alive(g.players[g.pkeys[i]]) THEN BossHitLoop(g, i + 1)
    ELSE BossHitLoop(RingHit(BossHit(g, g.pkeys[i]), g.pkeys[i]), i + 1)

\* src/unnamed/part_002:1075-1192
BossTurnStep(g, dt) ==
    LET g1 == BossHitLoop(DriftLoop(BossMoves(bossDoAttack(g, dt), dt), 1, dt), 1)
    IN  IF g1.bossActionT >= BossRestMs /\ isStopped(g1.boss) THEN endBossTurn(g1) ELSE g1

RECURSIVE ItemLoopBT(_, _, _)
\* src/unnamed/part_002:1233-1242
ItemLoopBT(g, pid, i) ==
    IF i > Len(g.items) THEN g
    ELSE LET p == g.players[pid]
             it == g.items[i]
         IN  IF it.takenBy = NoId /\ Near(p.x, p.y, it.x, it.y, p.r + it.r)
             THEN ItemLoopBT([g EXCEPT !.items[i].takenBy = pid,
                                       !.players[pid].dashCharges =
                                           IF it.type = "dash" THEN @ + 1 ELSE @,
                                       !.players[pid].shield =
                                           IF it.type = "shield" THEN TRUE ELSE @,
                                       !.players[pid].magnetT =
                                           IF it.type = "magnet" THEN 6000 ELSE @],
                             pid, i + 1)
             ELSE ItemLoopBT(g, pid, i + 1)

\* src/unnamed/part_002:1196-1268: one player of the resolving loop.  A boss
\* stage has no coins and no traps (src/unnamed/part_002:762-764).
StepPlayerBT(g, pid, dt) ==
    LET p == g.players[pid]
        p1 == [p EXCEPT !.magnetT = Max(0, p.magnetT - dt),
                        !.dashStrikeWindow = IF @ > 0 THEN Max(0, @ - dt) ELSE @]
        p2 == clampSpeed(Integrate(p1, dt, FrictionPow(dt)), MaxSpeedBT)
        p3 == PadLoop(WallLoopBT(p2, g.walls, 1), g.pads, 1)
    IN  Recovered(HazardLoop(ItemLoopBT([g EXCEPT !.players[pid] = p3], pid, 1),
                             pid, 1, FALSE), pid, "Out of bounds")

RECURSIVE PlayerLoopBT(_, _, _)
PlayerLoopBT(g, i, dt) ==
    IF i > Len(g.pkeys) THEN g
    ELSE PlayerLoopBT(StepPlayerBT(g, g.pkeys[i], dt), i + 1, dt)

\* src/unnamed/part_002:1277-1309: one player touches the boss
BodyHit(g, pid) ==
    LET p == g.players[pid]
        b == g.boss
        dx == p.x - b.x
        dy == p.y - b.y
        p1 == KnockedBT(p, b, Hypot10(dx, dy), BodyKnock)
        g1 == [g EXCEPT !.players[pid] = p1]
        closed == [p1 EXCEPT !.dashStrikeWindow = 0]
        ang == Atan2Deg(dy, dx)
    IN  IF ~Near(p.x, p.y, b.x, b.y, p.r + b.r) THEN g
        ELSE IF b.rules.parryOnly THEN g1
        ELSE IF b.rules.dashOnly
        THEN IF p1.dashStrikeWindow > 0
             THEN [bossTakeDamageBT(g1, 2, "DASH", ang) EXCEPT !.players[pid] = closed]
             ELSE g1
        ELSE IF b.rules.weakspot
        THEN IF Speed2(p1) > 140 * 140
             THEN [bossTakeDamageBT(g1, IF p1.dashStrikeWindow > 0 THEN 2 ELSE 1,
                                    IF p1.dashStrikeWindow > 0 THEN "DASH" ELSE "BODY", ang)
                     EXCEPT !.players[pid] = closed]
             ELSE g1
        ELSE IF Speed2(p1) > 160 * 160 THEN bossTakeDamageBT(g1, 1, "BODY", ang)
        ELSE g1

RECURSIVE BodyHitLoop(_, _)
\* src/unnamed/part_002:1271-1311
BodyHitLoop(g, i) ==
    IF i > Len(g.pkeys) THEN g
    ELSE IF ~Alive(g.players[g.pkeys[i]]) THEN BodyHitLoop(g, i + 1)
    ELSE BodyHitLoop(BodyHit(g, g.pkeys[i]), i + 1)

\* src/unnamed/part_002:1330-1338
BossWinBT(g) ==
    IF g.mode = "boss" /\ g.boss # NoBoss /\ g.boss.hp <= 0
    THEN [g EXCEPT !.phase = "round_end",
                   !.toast = "defeated!",
                   !.players = [pid \in DOMAIN g.players |->
                       [g.players[pid] EXCEPT !.score = @ + 100, !.coins = @ + 40]]]
    ELSE g

\* src/unnamed/part_002:1195-1345, mode boss (the race finish check of lines
\* 1313-1327 is for mode race)
ResolveBT(g, dt) ==
    LET g1 == PlayerLoopBT(g, 1, dt)
        g2 == IF g1.mode = "boss" /\ g1.boss # NoBoss /\ g1.boss.hp > 0
              THEN BodyHitLoop(g1, 1) ELSE g1
        g3 == BossWinBT(g2)
    IN  IF AllStopped(g3) THEN endPlayerTurn(g3, "") ELSE g3

\* src/unnamed/part_002:1067-1072
TimeUpBT(g) ==
    IF g.turnMsLeft <= 0 /\ g.phase = "play"
    THEN IF g.turnState = "boss_turn" THEN endBossTurn(g) ELSE endPlayerTurn(g, "Time up")
    ELSE g

\* a step whose boss acts whatever the turn state
stepGameBTUngated(g, dt) ==
    LET g1 == TimeUpBT(Clock(g, dt))
    IN  IF g1.mode = "boss" /\ g1.phase = "play"
        THEN BossTurnStep(g1, dt)
        ELSE IF g1.turnState = "resolving" /\ g1.phase = "play" THEN ResolveBT(g1, dt)
        ELSE g1

\* src/unnamed/part_002:1058-1346
stepGameBT(g, dt) ==
    LET g1 == TimeUpBT(Clock(g, dt))
    IN  IF g1.mode = "boss" /\ g1.turnState = "boss_turn" /\ g1.phase = "play"
        THEN BossTurnStep(g1, dt)
        ELSE IF g1.turnState = "resolving" /\ g1.phase = "play" THEN ResolveBT(g1, dt)
        ELSE g1

(***************************************************************************)
(* Messages and timer callbacks of the boss-turn variant.                  *)
(***************************************************************************)
\* the flicks a player sends against the Armored Crab King
\* (the second flick is too weak to move the player: the turn ends at once)
FlickVecsBT(g, pid) ==
    IF g.players[pid].charId = "hummingbird" THEN { <<-1300, 0>>, <<4, 0>> }
    ELSE { <<4, 0>> }

\* src/unnamed/part_002:1680-1698
ActBT(ws, v) ==
    /\ InRoom(ws)
    /\ game # NoGame
    /\ Young(game, InputTicks) \/ LastCall(game)
    /\ IF game.phase # "play" \/ game.activeId # wsPid[ws] \/ game.turnState # "aim"
       THEN Ignore("act", ws)
       ELSE /\ flicksLeft > 0
            /\ v \in FlickVecsBT(game, wsPid[ws])
            /\ game' = [applyFlickBT(game, wsPid[ws],
                                     clamp(v[1], -FlickLimitBT, FlickLimitBT),
                                     clamp(v[2], -FlickLimitBT, FlickLimitBT))
                          EXCEPT !.turnState = "resolving", !.toast = "launched"]
            /\ lastEvent' = Event("flick", ws, wsPid[ws], FALSE, << "launched" >>)
            /\ flicksLeft' = flicksLeft - 1
            /\ UNCHANGED << wsOpen, wsRoom, wsPid, roomExists, clients, hostId, lobby,
                            loop, lastSnap, nextId, reloadsLeft, ticksLeft >>

\* src/unnamed/part_002:1700-1713
DashBT(ws) ==
    /\ InRoom(ws)
    /\ game # NoGame
    /\ IF game.phase # "play" \/ game.activeId # wsPid[ws] \/ game.turnState # "resolving"
       THEN Young(game, InputTicks) /\ Ignore("dash", ws)
       ELSE IF ~dashOkBT(game, wsPid[ws]) THEN Young(game, InputTicks) /\ Ignore("dash", ws)
       ELSE /\ game' = [applyDashBT(game, wsPid[ws]) EXCEPT !.toast = "Dash!"]
            /\ lastEvent' = Event("dashed", ws, wsPid[ws], FALSE, << "Dash!" >>)
            /\ UNCHANGED << wsOpen, wsRoom, wsPid, roomExists, clients, hostId, lobby,
                            loop, lastSnap, nextId, budgets >>

\* src/unnamed/part_002:1462-1489.  The boss keeps more hp than the dashes of
\* a bounded run can take, so the stage that a round end would load is not
\* explored.
TickBT ==
    /\ roomExists
    /\ loop
    /\ game # NoGame
    /\ ticksLeft > 0
    /\ \E g1 \in { Snapped(stepGameBT(game, MaxSliceMs), lastSnap, MaxSliceMs) } :
           /\ g1.phase = "play"
           /\ game' = g1
           /\ lastEvent' = Event("tick", 0, NoId, FALSE,
                                 IF SnapDue(lastSnap, MaxSliceMs)
                                 THEN << stepGameBT(game, MaxSliceMs).toast >> ELSE << >>)
    /\ lastSnap' = IF SnapDue(lastSnap, MaxSliceMs) THEN 0 ELSE lastSnap + MaxSliceMs
    /\ ticksLeft' = ticksLeft - 1
    /\ UNCHANGED << wsOpen, wsRoom, wsPid, roomExists, clients, hostId, lobby, loop,
                    nextId, flicksLeft, reloadsLeft >>

\* src/unnamed/part_002:1716-1752.  A socket closes when a turn of a player
\* or of the boss has just started (bound CloseTicks); CrabCloses sockets do.
CloseBT(ws) ==
    /\ wsOpen[ws]
    /\ Len(clients) > CrabPlayers - CrabCloses
    /\ \/ Young(game, CloseTicks)
       \/ /\ game # NoGame
          /\ game.phase = "play"
          /\ game.turnState = "boss_turn"
          /\ BossTurnMs - game.turnMsLeft <= CloseTicks * MaxSliceMs
    /\ wsOpen' = [wsOpen EXCEPT ![ws] = FALSE]
    /\ UNCHANGED << wsRoom, wsPid, nextId, budgets >>
    /\ IF ~(wsRoom[ws] /\ roomExists)
       THEN /\ lastEvent' = Event("close", ws, wsPid[ws], FALSE, << >>)
            /\ UNCHANGED roomVars
       ELSE LET pid == wsPid[ws]
                k == ClientOf(clients, ws)
                cl == IF k = 0 THEN clients ELSE RemoveAt(clients, k)
                g == leaveGame(game, pid)
                torn == game # NoGame /\ g = NoGame
            IN  IF Len(cl) = 0
                THEN /\ roomExists' = FALSE
                     /\ clients' = << >>
                     /\ hostId' = NoId
                     /\ lobby' = NewLobby
                     /\ game' = NoGame
                     /\ loop' = FALSE
                     /\ lastSnap' = 0
                     /\ lastEvent' = Event("close", ws, pid, FALSE, << >>)
                ELSE /\ clients' = cl
                     /\ hostId' = IF pid = hostId THEN cl[1].pid ELSE hostId
                     /\ lobby' = [lobby EXCEPT !.picks[pid] = "none",
                                              !.ready[pid] = FALSE,
                                              !.started = IF torn THEN FALSE ELSE @]
                     /\ game' = g
                     /\ lastEvent' = Event("close", ws, pid, FALSE, << SnapToast(g) >>)
                     /\ UNCHANGED << roomExists, loop, lastSnap >>

CrabSockets == 1..CrabPlayers
CrabPicks == [i \in CrabSockets |-> IF i = 1 THEN "hummingbird" ELSE "frog"]
\* the room of CrabPlayers sockets, started in boss mode
InitBossTurn ==
    /\ wsOpen = [w \in CrabSockets |-> TRUE]
    /\ wsRoom = [w \in CrabSockets |-> TRUE]
    /\ wsPid = [w \in CrabSockets |-> w]
    /\ roomExists = TRUE
    /\ clients = [i \in CrabSockets |-> [ws |-> i, pid |-> i]]
    /\ hostId = 1
    /\ lobby = [mode |-> "boss", started |-> TRUE, picks |-> CrabPicks,
                ready |-> [i \in CrabSockets |-> TRUE]]
    /\ game = makeGameBT([i \in CrabSockets |-> i], CrabPicks)
    /\ loop = TRUE
    /\ lastSnap = 0
    /\ nextId = CrabPlayers + 1
    /\ flicksLeft = CrabFlicks
    /\ reloadsLeft = 0
    /\ ticksLeft = CrabTicks
    /\ lastEvent = Event("start", 1, 1, FALSE, << "appeared" >>)

NextBossTurn ==
    \/ \E ws \in CrabSockets, v \in { <<-1300, 0>>, <<4, 0>> } : ActBT(ws, v)
    \/ \E ws \in CrabSockets : DashBT(ws)
    \/ \E ws \in CrabSockets : CloseBT(ws)
    \/ TickBT

SpecBossTurn == InitBossTurn /\ [][NextBossTurn]_vars

\* src/unnamed/part_002:1680-1698: an act message with any vector
ActToward(ws, v) ==
    /\ InRoom(ws)
    /\ game # NoGame
    /\ Young(game, InputTicks)
    /\ IF game.phase # "play" \/ game.activeId # wsPid[ws] \/ game.turnState # "aim"
       THEN Ignore("act", ws)
       ELSE /\ flicksLeft > 0
            /\ game' = [applyFlickBT(game, wsPid[ws],
                                     clamp(v[1], -FlickLimitBT, FlickLimitBT),
                                     clamp(v[2], -FlickLimitBT, FlickLimitBT))
                          EXCEPT !.turnState = "resolving", !.toast = "launched"]
            /\ lastEvent' = Event("flick", ws, wsPid[ws], FALSE, << "launched" >>)
            /\ flicksLeft' = flicksLeft - 1
            /\ UNCHANGED << wsOpen, wsRoom, wsPid, roomExists, clients, hostId, lobby,
                            loop, lastSnap, nextId, reloadsLeft, ticksLeft >>

\* the first player of the armored_crab stage flicks from its spawn (180, 520)
\* toward the hazard at (980, 940) and comes to rest across it, or flicks too
\* weakly to move
HazardVecs == { <<968, 508>>, <<4, 0>> }

NextLives ==
    \/ \E ws \in CrabSockets, v \in HazardVecs : ActToward(ws, v)
    \/ TickBT

SpecLives == InitBossTurn /\ [][NextLives]_vars

\* src/unnamed/part_002:1462-1489: the callbacks of a boss turn that is in
\* progress when the RestTicks explored callbacks are used up
TickBossTurn ==
    /\ roomExists
    /\ loop
    /\ game # NoGame
    /\ ticksLeft = 0
    /\ game.turnState = "boss_turn"
    /\ \E g1 \in { Snapped(stepGameBT(game, MaxSliceMs), lastSnap, MaxSliceMs) } :
           /\ game' = g1
           /\ lastEvent' = Event("tick", 0, NoId, FALSE,
                                 IF SnapDue(lastSnap, MaxSliceMs)
                                 THEN << stepGameBT(game, MaxSliceMs).toast >> ELSE << >>)
    /\ lastSnap' = IF SnapDue(lastSnap, MaxSliceMs) THEN 0 ELSE lastSnap + MaxSliceMs
    /\ UNCHANGED << wsOpen, wsRoom, wsPid, roomExists, clients, hostId, lobby, loop,
                    nextId, budgets >>

InitRest ==
    /\ wsOpen = [w \in CrabSockets |-> TRUE]
    /\ wsRoom = [w \in CrabSockets |-> TRUE]
    /\ wsPid = [w \in CrabSockets |-> w]
    /\ roomExists = TRUE
    /\ clients = [i \in CrabSockets |-> [ws |-> i, pid |-> i]]
    /\ hostId = 1
    /\ lobby = [mode |-> "boss", started |-> TRUE, picks |-> CrabPicks,
                ready |-> [i \in CrabSockets |-> TRUE]]
    /\ game = makeGameBT([i \in CrabSockets |-> i], CrabPicks)
    /\ loop = TRUE
    /\ lastSnap = 0
    /\ nextId = CrabPlayers + 1
    /\ flicksLeft = RestFlicks
    /\ reloadsLeft = 0
    /\ ticksLeft = RestTicks
    /\ lastEvent = Event("start", 1, 1, FALSE, << "appeared" >>)

NextRest ==
    \/ \E ws \in CrabSockets, v \in { <<-1300, 0>>, <<4, 0>> } : ActBT(ws, v)
    \/ \E ws \in CrabSockets : DashBT(ws)
    \/ \E ws \in CrabSockets : CloseBT(ws)
    \/ TickBT
    \/ TickBossTurn

InBossTurn == game # NoGame /\ game.turnState = "boss_turn"

\* the loop of the room runs and finds a boss turn: a callback can step it
TickReady == roomExists /\ loop /\ InBossTurn

\* the step of a timer callback
Ticked == lastEvent'.t = "tick"

\* setInterval keeps calling the loop of a room that has a Game
\* (src/unnamed/part_002:1462-1489): weak fairness of the callbacks of a boss
\* turn, WF_vars(TickBT \/ TickBossTurn), written out with the guard for
\* ENABLED
SpecRest ==
    InitRest /\ [][NextRest]_vars /\ ([]<>(~TickReady) \/ []<><<Ticked>>_vars)

\* the shield of a STUN_THEN_PUNISH boss is down
Stunned ==
    /\ game # NoGame
    /\ game.boss # NoBoss
    /\ "STUN_THEN_PUNISH" \in game.boss.rules
    /\ ~game.boss.shielded

\* src/server.js:1091-1115: the callbacks of a stun window that is open when
\* the WindowTicks explored callbacks are used up
TickStunned ==
    /\ roomExists
    /\ loop
    /\ ticksLeft = 0
    /\ Stunned
    /\ \E g1 \in { stepGame(game, MaxSliceMs) } :
       \E g3 \in { RoundEnd(Snapped(g1, lastSnap, MaxSliceMs), MaxSliceMs) } :
           /\ RoundEndDue(g1, MaxSliceMs) => g1.round < MaxRound
           /\ game' = g3
           /\ lastSnap' = IF SnapDue(lastSnap, MaxSliceMs) THEN 0
                          ELSE lastSnap + MaxSliceMs
           /\ lastEvent' = Event("tick", 0, NoId, FALSE,
                                 (IF SnapDue(lastSnap, MaxSliceMs)
                                  THEN << g1.toast >> ELSE << >>)
                                 \o (IF RoundEndDue(g1, MaxSliceMs)
                                     THEN << g3.toast >> ELSE << >>))
    /\ UNCHANGED << wsOpen, wsRoom, wsPid, roomExists, clients, hostId, lobby, loop,
                    nextId, budgets >>

\* the totem_jaguar stage (STUN_THEN_PUNISH), one hummingbird
InitWindow == Started("boss", 1, BossPicks, 4, StunFlicks, 0, WindowTicks)

NextWindow ==
    \/ \E ws \in WS, kind \in {"flick", "other"}, v \in AllFlickVecs : Act(ws, kind, v)
    \/ \E ws \in WS : Dash(ws)
    \/ Tick
    \/ TickStunned

\* the loop of the room runs and finds the shield down: a callback can step
StunReady == roomExists /\ loop /\ Stunned

\* setInterval keeps calling the loop of a room that has a Game
\* (src/server.js:1089-1115): weak fairness of the callbacks of a stun window,
\* WF_vars(Tick \/ TickStunned), written out with the guard for ENABLED
SpecWindow ==
    InitWindow /\ [][NextWindow]_vars /\ ([]<>(~StunReady) \/ []<><<Ticked>>_vars)

(***************************************************************************)
(* Properties.                                                             *)
(***************************************************************************)
Elems(sq) == { sq[i] : i \in 1..Len(sq) }

\* the step keeps the Game, its round and its boss
SameBoss ==
    /\ game # NoGame /\ game' # NoGame
    /\ game.boss # NoBoss /\ game'.boss # NoBoss
    /\ game'.round = game.round /\ game'.bossIndex = game.bossIndex

OnStage(rule) == game # NoGame /\ game.boss # NoBoss /\ rule \in game.boss.rules

\* the circles of player p and boss b overlap
Touching(p, b) ==
    (p.x - BossX(b)) * (p.x - BossX(b)) + (p.y - BossY(b)) * (p.y - BossY(b))
        <= (p.r + b.r) * (p.r + b.r)

\* distance of player p from the ring's edge, in tenths of a px
RingGap(p, ring) == Abs(Hypot10(p.x - ring.x, p.y - ring.y) - ring.r * 10)

\* distance of two angles around the circle, in degrees
CircDist(a, b) == Min((a - b) % 360, 360 - ((a - b) % 360))

\* C1: turn exclusivity.  An "act" message changes the Game only if the
\* sender's id is activeId, the phase is play and the turn state is aim, and
\* the change takes the turn from aim to resolving; at any time at most one
\* player of the turn order is the active player.
C1_TurnExclusivity ==
    /\ [][ (lastEvent'.t \in {"act", "flick"} /\ game' # game)
             => /\ game # NoGame
                /\ game.phase = "play"
                /\ game.turnState = "aim"
                /\ game.activeId = wsPid[lastEvent'.ws]
                /\ game'.turnState = "resolving" ]_vars
    /\ [](game # NoGame =>
             Cardinality({ i \in 1..Len(game.turnOrder) :
                              game.turnOrder[i] = game.activeId }) = 1)

\* the second player of the order has flicked in its own turn
C1_SecondPlayerFlicked ==
    /\ game # NoGame
    /\ lastEvent.t = "flick" /\ lastEvent.pid = 2
    /\ game.activeId = 2 /\ game.turnState = "resolving"
    /\ Speed2(game.players[2]) > 0

\* C2: while a Game exists activeId is an element of turnOrder - in every
\* reachable state, and after the end of a turn by the clock and after a
\* round change from it; a close that takes the last player of the turn
\* order out of the Game leaves no Game.
C2_ActiveInTurnOrder ==
    /\ [](game # NoGame =>
             \A g \in { game, endTurn(game, "Time up"), nextRound(game) } :
                 g.activeId \in Elems(g.turnOrder))
    /\ [][ (game # NoGame /\ lastEvent'.t = "close"
              /\ Elems(game.turnOrder) \subseteq { lastEvent'.pid })
             => game' = NoGame ]_vars

\* the active player of a race of two has left before any flick
C2_ActivePlayerLeft ==
    /\ game # NoGame
    /\ lastEvent.t = "close" /\ lastEvent.pid = 1
    /\ 1 \notin DOMAIN game.players
    /\ game.activeId = 2
    /\ flicksLeft = MaxFlicks

\* C3: an "act" or "dash" message from a sender that is not the active
\* player, or in phase round_end, or in the wrong turn state (act outside
\* aim, dash outside resolving) leaves the room and its Game as they were -
\* nothing is kept of it for a later step - and nothing is sent, no error
\* either.
C3_RejectedInputIgnored ==
    [][ ( /\ game # NoGame
          /\ lastEvent'.t \in {"act", "flick", "dash", "dashed"}
          /\ \/ game.activeId # wsPid[lastEvent'.ws]
             \/ game.phase = "round_end"
             \/ lastEvent'.t \in {"act", "flick"} /\ game.turnState # "aim"
             \/ lastEvent'.t \in {"dash", "dashed"} /\ game.turnState # "resolving" )
          => /\ UNCHANGED << wsOpen, wsRoom, wsPid, roomVars, nextId >>
             /\ ~lastEvent'.err
             /\ lastEvent'.snaps = << >> ]_vars

\* a flick was sent while the round was ending
C3_ActAtRoundEnd ==
    /\ game # NoGame
    /\ game.phase = "round_end"
    /\ lastEvent.t = "act"
    /\ lastEvent.pid = game.activeId

\* C4: speed ceiling.  At the end of every handler and every simulation
\* step no player is faster than the maximum speed.
C4_SpeedCeiling ==
    game # NoGame =>
        \A pid \in DOMAIN game.players : Speed2(game.players[pid]) <= MaxSpeed * MaxSpeed

\* C5: settling.  A resolving phase ends by its players coming to rest: a
\* simulation step takes a turn from resolving to aim only with every player
\* slower than the stopped threshold, whatever the turn clock shows.
C5_SettlesBeforeClock ==
    [][ ( /\ game # NoGame /\ game' # NoGame
          /\ lastEvent'.t = "tick"
          /\ game'.round = game.round
          /\ game.turnState = "resolving" /\ game'.turnState = "aim" )
          => AllStopped(game') ]_vars

\* C6: within one round a takenBy marker of a coin or of a pickup, once
\* set, is neither cleared nor overwritten, whatever message or callback
\* runs, and a coin pays once: during the play of round 1 a player holds 10
\* coins and 25 points for each coin marked with its id.
C6_TakenStaysTaken ==
    /\ [][ (game # NoGame /\ game' # NoGame /\ game'.round = game.round)
             => /\ \A i \in DOMAIN game.coins :
                       game.coins[i].takenBy # NoId
                           => /\ i \in DOMAIN game'.coins
                              /\ game'.coins[i].takenBy = game.coins[i].takenBy
                /\ \A i \in DOMAIN game.items :
                       game.items[i].takenBy # NoId
                           => /\ i \in DOMAIN game'.items
                              /\ game'.items[i].takenBy = game.items[i].takenBy ]_vars
    /\ [](game # NoGame /\ game.round = 1 /\ game.phase = "play" =>
             \A pid \in DOMAIN game.players :
                 /\ game.players[pid].coins
                        = 10 * Cardinality({ i \in DOMAIN game.coins :
                                                 game.coins[i].takenBy = pid })
                 /\ game.players[pid].score
                        = 25 * Cardinality({ i \in DOMAIN game.coins :
                                                 game.coins[i].takenBy = pid }))

\* C7: a DASH_ONLY boss loses hp only in a simulation step in which a player
\* overlapping it has an open dash-strike window, the loss is 1 and closes
\* the window; no dash takes more than 1 hp.
C7_DashOnlyGate ==
    /\ [][ (SameBoss /\ "DASH_ONLY" \in game.boss.rules
              /\ game'.boss.hp # game.boss.hp)
             => /\ lastEvent'.t = "tick"
                /\ game'.boss.hp = game.boss.hp - 1
                /\ \E pid \in DOMAIN game.players :
                       /\ game.players[pid].dashStrikeWindow > MaxSliceMs
                       /\ game'.players[pid].dashStrikeWindow = 0
                       /\ Touching(game'.players[pid], game'.boss) ]_vars
    /\ [](OnStage("DASH_ONLY") =>
             \A pid \in DOMAIN game.players : game.players[pid].dashHits <= 1)

\* a dash has struck the armored crab
C7_CrabStruck ==
    /\ OnStage("DASH_ONLY")
    /\ lastEvent.t = "tick"
    /\ game.boss.hp = game.boss.hpMax - 1
    /\ game.players[1].dashHits = 1
    /\ game.players[1].dashUsedThisTurn

\* C8: for a WEAKSPOT_CYCLE boss a hit without an angle, or with an angle
\* further than half of weakArc from weakAngle, leaves the boss as it was.
C8_WeakSpotGate ==
    [][ ( /\ lastEvent'.t = "damage"
          /\ "WEAKSPOT_CYCLE" \in game.boss.rules
          /\ \/ lastEvent'.hitAngle = NoAngle
             \/ 2 * CircDist(lastEvent'.hitAngle, game.boss.weakAngle) > game.boss.weakArc )
          => game'.boss = game.boss ]_vars

\* a tagged hit outside the arc of the storm manta, its weak spot turned
C8_HitOutsideArc ==
    /\ lastEvent.t = "damage"
    /\ game.boss.id = "storm_manta"
    /\ game.boss.weakAngle = 90
    /\ lastEvent.source = "RICOCHET_OK"
    /\ lastEvent.hitAngle = 135
    /\ game.boss.hp = game.boss.hpMax

\* C9: a RICOCHET_REQUIRED boss loses hp only to a player that has bounced
\* off a wall since its flick.
C9_RicochetGate ==
    [][ (SameBoss /\ "RICOCHET_REQUIRED" \in game.boss.rules
          /\ game'.boss.hp < game.boss.hp)
          => \E pid \in DOMAIN game'.players :
                 /\ Touching(game'.players[pid], game'.boss)
                 /\ game'.players[pid].bounced ]_vars

StoneIds(g) == { k \in DOMAIN g.items : g.items[k].type = "stone" }

\* C11: a STUN_THEN_PUNISH boss is shielded when its stage is loaded; its hp
\* changes only in a step that leaves it unshielded (a shielded boss takes
\* no damage); the shield drops only in a simulation step that brings
\* stunHits to 2 or more; and stunHits grows only in a simulation step in
\* which the boss was shielded and a stone, moved by that step, touches the
\* boss faster than 70 px/s, by at most 1 for each stone.
C11_StunShield ==
    /\ [][ (SameBoss /\ "STUN_THEN_PUNISH" \in game.boss.rules)
             => /\ game'.boss.hp # game.boss.hp => ~game'.boss.shielded
                /\ (game.boss.shielded /\ ~game'.boss.shielded)
                       => /\ lastEvent'.t = "tick"
                          /\ game'.boss.stunHits >= 2
                          /\ game'.boss.stunHits > game.boss.stunHits
                /\ game'.boss.stunHits > game.boss.stunHits
                       => /\ lastEvent'.t = "tick"
                          /\ game.boss.shielded
                          /\ game'.boss.stunHits - game.boss.stunHits
                                 <= Cardinality(
                                      { k \in StoneIds(game) :
                                          LET it == MoveStone(game.items[k], game.walls,
                                                              MaxSliceMs)
                                          IN  /\ Touching(it, game'.boss)
                                              /\ Speed2(it) > 70 * 70 }) ]_vars
    /\ [](OnStage("STUN_THEN_PUNISH") /\ game.boss.t = 0
             => game.boss.shielded /\ game.boss.stunHits = 0)

\* the shield was broken by stones and the stunned boss has been struck
C11_StunnedAndStruck ==
    /\ OnStage("STUN_THEN_PUNISH")
    /\ game.round = 1
    /\ ~game.boss.shielded
    /\ game.boss.stunHits = 2
    /\ game.boss.hp = game.boss.hpMax - 1
    /\ lastEvent.t = "tick"

\* C12: while the phase stays round_end, whatever tick or message occurs,
\* winnerId does not change, no player becomes finished and no player's score
\* or coins grow (no finish or boss-defeat reward is credited again).
C12_RoundEndStable ==
    [][ (game # NoGame /\ game' # NoGame
           /\ game.phase = "round_end" /\ game'.phase = "round_end")
          => /\ game'.winnerId = game.winnerId
             /\ \A pid \in DOMAIN game'.players :
                    /\ pid \in DOMAIN game.players
                    /\ game'.players[pid].finished => game.players[pid].finished
                    /\ game'.players[pid].score <= game.players[pid].score
                    /\ game'.players[pid].coins <= game.players[pid].coins ]_vars

\* the host has reset the positions after the win and the round end has run
\* on for a second
C12_ResetDuringRoundEnd ==
    /\ game # NoGame
    /\ game.phase = "round_end"
    /\ game.winnerId = 1
    /\ ~game.players[1].finished
    /\ game.endT >= 1000
    /\ lastEvent.t = "tick"

\* C13: a round end is left only by nextRound, run by the timer callback
\* when the phase has been round_end for more than the delay: the step that
\* takes the phase from round_end to play is a timer callback that raises
\* the round by one with more than RoundEndDelayMs accumulated, and the
\* accumulation starts from zero in the step that enters round_end.
C13_OneNextRound ==
    [][ (game # NoGame /\ game' # NoGame)
          => /\ (game.phase = "round_end" /\ game'.phase = "play")
                    => /\ lastEvent'.t = "tick"
                       /\ game'.round = game.round + 1
                       /\ game.endT + MaxSliceMs > RoundEndDelayMs
             /\ (game.phase = "play" /\ game'.phase = "round_end")
                    => game'.endT = MaxSliceMs ]_vars

\* C14: in race mode a step that takes the phase from play to round_end marks
\* exactly one player finished, makes that player winnerId and credits it the
\* finish bonus (+100 score, +20 coins, besides 25 and 10 per coin taken in
\* the same step) exactly once; no round ever has two finished players.
Finishers(g) == { pid \in DOMAIN g.players : g.players[pid].finished }
C14_RaceWinOnce ==
    [][ (game # NoGame /\ game' # NoGame /\ game.mode = "race"
         /\ game.phase = "play" /\ game'.phase = "round_end")
        => /\ Cardinality(Finishers(game')) = 1
           /\ Finishers(game') = { game'.winnerId }
           /\ \A pid \in Finishers(game') :
                  /\ pid \in DOMAIN game.players
                  /\ ~game.players[pid].finished
                  /\ game'.players[pid].score - game.players[pid].score
                        \in { 100 + 25 * k : k \in 0..Len(game.coins) }
                  /\ game'.players[pid].coins - game.players[pid].coins
                        \in { 20 + 10 * k : k \in 0..Len(game.coins) } ]_vars

\* C15: a player that is more than the safety margin outside the world when a
\* resolving update starts is, after that update, at its own spawn point (the
\* row of the spawn column it was given when the stage was loaded) with
\* velocity (0,0).
OwnSpawnY(g, pid) == SpawnY(IndexOf(g.turnOrder, pid) - 1, Len(g.turnOrder))
C15_RespawnAtOwnSpawn ==
    [][ (game # NoGame /\ game' # NoGame /\ lastEvent'.t = "tick"
         /\ game.phase = "play" /\ game.turnState = "resolving"
         /\ game.turnMsLeft > MaxSliceMs)
        => \A pid \in DOMAIN game.players :
              keepInWorldOrRespawn(game, game.players[pid])
              => /\ game'.players[pid].x = SpawnX
                 /\ game'.players[pid].y = OwnSpawnY(game, pid)
                 /\ game'.players[pid].vx = 0
                 /\ game'.players[pid].vy = 0 ]_vars

\* C17: in the step in which turnMsLeft becomes <= 0 while the phase is play,
\* whatever the turnState, the turn ends as after natural settling: the toast
\* set or broadcast is "Time up", turnState is aim, the cyclic successor in turnOrder is
\* active, the clock is back at 25000 ms and every player is stopped, so no
\* motion is carried into the next turn; the clock never shows 0 or less
\* after a step, so no aim or resolving phase outlasts 25 s.
C17_TimeUpLikeSettle ==
    [][ (game # NoGame /\ game' # NoGame /\ lastEvent'.t = "tick")
        => /\ (game.phase = "play" /\ game.turnMsLeft <= MaxSliceMs)
              => /\ \/ game'.toast = "Time up"
                    \/ \E i \in 1..Len(lastEvent'.snaps) : lastEvent'.snaps[i] = "Time up"
                 /\ game'.turnState = "aim"
                 /\ game'.turnMsLeft = TurnMs
                 /\ game'.turnIndex = (game.turnIndex + 1) % Len(game.turnOrder)
                 /\ game'.activeId = game.turnOrder[game'.turnIndex + 1]
                 /\ \A pid \in DOMAIN game'.players : isStopped(game'.players[pid])
           /\ game'.phase = "play" => game'.turnMsLeft > 0 ]_vars

\* C18: in every timer callback or connection close in which activeId changes
\* while the game continues, turnMsLeft is afterwards the full turn duration
\* (25000 ms) and the new activeId is the cyclic successor, in the turnOrder
\* before the step, of the player that was active.
Successor(order, pid) == order[(IndexOf(order, pid) % Len(order)) + 1]
C18_HandoverResetsClock ==
    [][ (game # NoGame /\ game' # NoGame /\ lastEvent'.t \in { "tick", "close" }
         /\ game'.activeId # game.activeId)
        => /\ game'.turnMsLeft = TurnMs
           /\ game'.activeId = Successor(game.turnOrder, game.activeId) ]_vars

\* C20: each nextRound rotates turnOrder left by exactly one position (the
\* previous first player moves to the end), sets turnIndex to 0 and activeId
\* to the new first player; within a round no turn reorders turnOrder; with n
\* players joined in the order 1..n and no disconnects, turnOrder in round r
\* is 1..n rotated left r - 1 times, so every n rounds restore the order.
C20_RoundRotation ==
    [][ (game # NoGame /\ game' # NoGame)
        => /\ game'.round = game.round + 1
              => /\ game'.turnOrder = Tail(game.turnOrder) \o << Head(game.turnOrder) >>
                 /\ game'.turnIndex = 0
                 /\ game'.activeId = game'.turnOrder[1]
           /\ game'.round = game.round => game'.turnOrder = game.turnOrder
           /\ game'.round \in { game.round, game.round + 1 }
           /\ \A i \in 1..Len(game'.turnOrder) :
                 game'.turnOrder[i]
                   = ((i - 1 + game'.round - 1) % Len(game'.turnOrder)) + 1 ]_vars
C20_ThreeRoundsRestore ==
    /\ game # NoGame
    /\ game.round = 4
    /\ game.turnOrder = << 1, 2, 3 >>
    /\ game.turnIndex = 0 /\ game.activeId = 1
    /\ lastEvent.t = "next_round"

\* C16: every recovery of a player of the boss-turn variant - a timer callback
\* that puts a player that was outside the arena, or that has lost a life,
\* back on its own spawn point - leaves that player with velocity (0,0) and
\* with dashStrikeWindow = 0.
Outside(g, p) ==
    \/ p.x < g.bounds.x
    \/ p.y < g.bounds.y
    \/ p.x > g.bounds.x + g.bounds.w
    \/ p.y > g.bounds.y + g.bounds.h
RecoveredBT(g, h, pid) ==
    /\ pid \in DOMAIN g.players
    /\ pid \in DOMAIN h.players
    /\ h.players[pid].x = SpawnOf(h, IndexOf(h.turnOrder, pid) - 1).x
    /\ h.players[pid].y = SpawnOf(h, IndexOf(h.turnOrder, pid) - 1).y
    /\ Outside(g, g.players[pid]) \/ h.players[pid].lives < g.players[pid].lives
C16_RecoveryClearsStrike ==
    [][ (game # NoGame /\ game' # NoGame /\ lastEvent'.t = "tick")
        => \A pid \in CrabSockets :
              RecoveredBT(game, game', pid)
              => /\ game'.players[pid].vx = 0
                 /\ game'.players[pid].vy = 0
                 /\ game'.players[pid].dashStrikeWindow = 0 ]_vars

\* C19: in boss mode with a living boss, a step that completes a player turn
\* (turnCount grows, by one) leaves the game in boss_turn exactly when the new
\* turnCount is a multiple of bossActsEvery, and only such a step starts a boss
\* turn; when the boss turn starts and as long as it lasts, turnIndex and the
\* player it designates stay as they were; the step that ends the boss turn
\* (and the one that ends a player turn without a boss turn) makes the cyclic
\* successor of that player the active player, in turnState aim.
BossAlive(g) == g.mode = "boss" /\ g.boss # NoBoss /\ g.boss.hp > 0 /\ g.phase = "play"
CadenceStep(g, h) ==
    /\ h.turnCount # g.turnCount
        => /\ h.turnCount = g.turnCount + 1
           /\ (h.turnState = "boss_turn") <=> (h.turnCount % g.bossActsEvery = 0)
           /\ h.turnState = "boss_turn"
                => h.turnIndex = g.turnIndex /\ h.activeId = g.activeId
           /\ h.turnState # "boss_turn"
                => h.turnState = "aim" /\ h.activeId = Successor(g.turnOrder, g.activeId)
    /\ (g.turnState # "boss_turn" /\ h.turnState = "boss_turn")
        => h.turnCount = g.turnCount + 1
    /\ (g.turnState = "boss_turn" /\ h.turnState = "boss_turn")
        => h.turnIndex = g.turnIndex /\ h.activeId = g.activeId
    /\ (g.turnState = "boss_turn" /\ h.turnState # "boss_turn")
        => /\ h.turnState = "aim"
           /\ h.turnCount = g.turnCount
           /\ h.activeId = Successor(g.turnOrder, g.activeId)
C19_BossTurnCadence ==
    [][ (game # NoGame /\ game' # NoGame /\ BossAlive(game)) => CadenceStep(game, game') ]_vars

\* C21: a connection close whose playerId is a player of the running Game, in
\* any turnState, takes that entity out of players and its id out of turnOrder
\* in the same handler and leaves the other players as they were; if no id is
\* left in turnOrder the Game is null and lobby.started is false.  (A room
\* whose last client closed is deleted, and its Game with it.)  In every
\* Game the ids of turnOrder are exactly the keys of players, with the active
\* player among them, and a timer callback never brings a player back.
C21_DisconnectRemoves ==
    [][ /\ (lastEvent'.t = "close" /\ game # NoGame /\ lastEvent'.pid \in DOMAIN game.players)
           => IF Elems(game.turnOrder) \ {lastEvent'.pid} = {}
              THEN game' = NoGame /\ ~lobby'.started
              ELSE IF ~roomExists' THEN game' = NoGame
              ELSE /\ game' # NoGame
                   /\ DOMAIN game'.players = DOMAIN game.players \ {lastEvent'.pid}
                   /\ game'.turnOrder = Without(game.turnOrder, lastEvent'.pid)
                   /\ \A q \in DOMAIN game'.players : game'.players[q] = game.players[q]
        /\ game' # NoGame
           => /\ Elems(game'.turnOrder) = DOMAIN game'.players
              /\ Elems(game'.pkeys) = DOMAIN game'.players
              /\ game'.activeId \in DOMAIN game'.players
        /\ (lastEvent'.t = "tick" /\ game # NoGame /\ game' # NoGame)
           => DOMAIN game'.players = DOMAIN game.players ]_vars
\* a player left while its flick was resolving, and the other one plays on
C21_LeftMidResolution ==
    /\ lastEvent.t = "close"
    /\ game # NoGame
    /\ game.turnState = "resolving"
    /\ lastEvent.pid \notin DOMAIN game.players
    /\ Len(game.turnOrder) = 1
    /\ \E q \in DOMAIN game.players : ~isStopped(game.players[q])

\* C22: a set_mode, start, reset, host_reload_map or host_reset_positions
\* message whose sender's id is not room.hostId leaves the room, the lobby and
\* the Game as they were.
HostCommands == {"set_mode", "start", "reset", "host_reload_map", "host_reset_positions"}
C22_HostOnly ==
    [][ (lastEvent'.t \in HostCommands /\ lastEvent'.pid # hostId)
        => UNCHANGED << wsOpen, wsRoom, wsPid, roomExists, clients, hostId, lobby, game,
                        loop, lastSnap, nextId >> ]_vars
\* a player that is not the host sent reset, and the game goes on
C22_ResetByGuest ==
    /\ lastEvent.t = "reset"
    /\ hostId # NoId
    /\ lastEvent.pid # hostId
    /\ game # NoGame
    /\ lastEvent.pid \in DOMAIN game.players
    /\ lobby.started

\* C23: after every handler or timer callback that has broadcast a snapshot
\* the toast of the Game is empty, so that no later snapshot carries the same
\* toast again.
C23_ToastClearedAfterBroadcast ==
    [][ (Len(lastEvent'.snaps) > 0 /\ game' # NoGame) => game'.toast = "" ]_vars

\* C24: a text that is no message (a text that does not parse, or JSON that
\* is not an object with a t) is dropped: the handler raises no error and no
\* field of the sockets, the room or the Game changes.
C24_MalformedDropped ==
    [][ /\ lastEvent'.t # "TypeError"
        /\ lastEvent'.t = "malformed"
              => UNCHANGED << wsOpen, wsRoom, wsPid, roomExists, clients, hostId, lobby,
                              game, loop, lastSnap, nextId >> ]_vars

\* C25: whatever the fields vx and vy of an accepted flick, each component
\* of the vector handed to the player lies in [-2000, 2000], and the
\* velocity and the position of every player stay finite.
C25_FlickClamped ==
    [][ /\ lastEvent'.t = "flick"
              => \A i \in 1..2 : /\ ~lastEvent'.v[i].nan
                                 /\ lastEvent'.v[i].n >= -FlickLimit
                                 /\ lastEvent'.v[i].n <= FlickLimit
        /\ game' # NoGame => \A pid \in DOMAIN game'.players : game'.players[pid].nan = {}
      ]_vars

\* C26: a dash is applied only for the player whose flick started the
\* current resolving phase, and only if no dash was applied since that flick;
\* every other dash message leaves the room and the Game as they were.
C26_DashGate ==
    [][ /\ lastEvent'.t = "dashed"
              => /\ game.turnState = "resolving"
                 /\ lastEvent'.pid = game.launcher
                 /\ game.dashes = 0
        /\ lastEvent'.t = "dash"
              => UNCHANGED << wsOpen, wsRoom, wsPid, roomExists, clients, hostId, lobby,
                              game, loop, lastSnap, nextId >> ]_vars

C28_ReShield ==
    /\ [][ (SameBoss /\ OnStage("STUN_THEN_PUNISH"))
             => /\ (game.boss.shielded /\ ~game'.boss.shielded)
                     => lastEvent'.t = "tick" /\ game'.boss.stunnedT = StunWindowMs
                /\ (~game.boss.shielded /\ lastEvent'.t # "tick")
                     => /\ ~game'.boss.shielded
                        /\ game'.boss.stunnedT = game.boss.stunnedT
                /\ (~game.boss.shielded /\ lastEvent'.t = "tick"
                                         /\ game.boss.stunnedT > MaxSliceMs)
                     => /\ ~game'.boss.shielded
                        /\ game'.boss.stunnedT = game.boss.stunnedT - MaxSliceMs
                /\ (~game.boss.shielded /\ lastEvent'.t = "tick"
                                         /\ game.boss.stunnedT <= MaxSliceMs)
                     => game'.boss.shielded /\ game'.boss.stunHits = 0 ]_vars
    /\ (Stunned ~> ~Stunned)

\* the shield is up again after a window in which the boss was hit
C28_Reshielded ==
    /\ OnStage("STUN_THEN_PUNISH")
    /\ lastEvent.t = "tick"
    /\ game.boss.shielded
    /\ game.boss.stunHits = 0
    /\ game.boss.stunnedT = 0
    /\ game.boss.hp < game.boss.hpMax

\* C29: the hit points of a boss on stage stay between zero and the maximum
\* it was built with, and they never rise while the same boss is on stage.
C29_HpClamped ==
    /\ [](game # NoGame /\ game.boss # NoBoss
            => 0 <= game.boss.hp /\ game.boss.hp <= game.boss.hpMax)
    /\ [][SameBoss => game'.boss.hp <= game.boss.hp]_vars

\* a dash strike is taken by an armored crab that has no hit points left
C29_DeadBossStruck ==
    /\ game # NoGame
    /\ game.boss # NoBoss
    /\ lastEvent.t = "damage"
    /\ lastEvent.source = "DASH"
    /\ "DASH_ONLY" \in game.boss.rules
    /\ lastEvent.hp = 0
    /\ game.boss.hp = 0
    /\ game.phase = "play"

\* the boss that follows boss id in the roster, the last one followed by the first
RosterNext(id) ==
    LET i == CHOOSE j \in 1..Len(BOSS_DEFS) : BOSS_DEFS[j].id = id
    IN  BOSS_DEFS[(i % Len(BOSS_DEFS)) + 1]

\* every player of g2 has coins and score of g1 plus the given amounts
Credited(g1, g2, coins, score) ==
    /\ DOMAIN g2.players = DOMAIN g1.players
    /\ \A pid \in DOMAIN g1.players :
           /\ g2.players[pid].coins = g1.players[pid].coins + coins
           /\ g2.players[pid].score = g1.players[pid].score + score

\* C30: in boss mode the first timer step that finds the boss without hit
\* points while the round is played ends the round and credits every player
\* 40 coins and 80 score; no other step with the same boss on stage credits
\* anything or ends the round; the timer step that finds the delay over
\* starts the next round, and a boss is only ever replaced by the boss that
\* follows it in the roster (the last followed by the first) at full hit
\* points, either by that timer step or by a reload of the host.
C30_BossDefeat ==
    [][ (game # NoGame /\ game.mode = "boss" /\ game.boss # NoBoss /\ game' # NoGame) =>
          /\ (game.phase = "play" /\ game.boss.hp = 0 /\ lastEvent'.t = "tick") =>
                /\ SameBoss
                /\ game'.phase = "round_end"
                /\ Credited(game, game', 40, 80)
          /\ (SameBoss /\ ~(game.phase = "play" /\ game.boss.hp = 0
                              /\ lastEvent'.t = "tick")) =>
                /\ game'.phase = game.phase
                /\ Credited(game, game', 0, 0)
          /\ (game.phase = "round_end" /\ lastEvent'.t = "tick"
                 /\ RoundEndDue(game, MaxSliceMs)) =>
                /\ ~SameBoss
                /\ game'.round = game.round + 1
          /\ ~SameBoss =>
                /\ \/ /\ game.phase = "round_end"
                      /\ lastEvent'.t = "tick"
                      /\ RoundEndDue(game, MaxSliceMs)
                      /\ game'.round = game.round + 1
                   \/ /\ lastEvent'.t = "host_reload_map"
                      /\ game'.round = game.round
                /\ game'.phase = "play"
                /\ game'.bossIndex = game.bossIndex + 1
                /\ game'.boss.id = RosterNext(game.boss.id).id
                /\ game'.boss.rules = RosterNext(game.boss.id).rules
                /\ game'.boss.hpMax = RosterNext(game.boss.id).hp
                /\ game'.boss.hp = game'.boss.hpMax
                /\ Credited(game, game', 0, 0)
      ]_vars

\* the totem jaguar, last of the roster, was defeated and paid for once; the
\* second round is played against the armored crab, first of the roster
C30_RosterWrapped ==
    /\ game # NoGame
    /\ game.round = 2
    /\ game.phase = "play"
    /\ game.boss # NoBoss
    /\ game.boss.id = BOSS_DEFS[1].id
    /\ game.bossIndex = Len(BOSS_DEFS) + 1
    /\ game.boss.hp = game.boss.hpMax
    /\ \A pid \in DOMAIN game.players :
           game.players[pid].coins = 40 /\ game.players[pid].score = 80

\* position, velocity and attack state of the boss
BossMotion(g) ==
    << g.boss.x, g.boss.y, g.boss.vx, g.boss.vy, g.boss.ringActive, g.boss.ringR,
       g.bossActionT >>

\* player pid of g stands on a hazard, or at the spawn point a respawn puts it
HazardOrRespawn(g, pid) ==
    \/ \E i \in 1..Len(g.hazards) :
           Near(g.players[pid].x, g.players[pid].y, g.hazards[i].x, g.hazards[i].y,
                g.players[pid].r + g.hazards[i].r)
    \/ /\ g.players[pid].x = SpawnOf(g, IndexOf(g.turnOrder, pid) - 1).x
       /\ g.players[pid].y = SpawnOf(g, IndexOf(g.turnOrder, pid) - 1).y
       /\ g.players[pid].vx = 0
       /\ g.players[pid].vy = 0

C32_OneLoop ==
    /\ [](loop => roomExists)
    /\ [](~roomExists => (~loop /\ game = NoGame /\ Len(clients) = 0))
    /\ [][ /\ "made" \in DOMAIN lastEvent' =>
                 /\ lastEvent'.made = (IF loop THEN 0 ELSE 1)
                 /\ loop'
           /\ loop' # loop =>
                 \/ "made" \in DOMAIN lastEvent' /\ lastEvent'.made = 1
                 \/ lastEvent'.t = "close" /\ Len(clients') = 0 /\ ~roomExists'
           /\ (lastEvent'.t = "close" /\ roomExists /\ Len(clients') = 0) => ~roomExists'
           /\ lastEvent'.t = "tick" => (roomExists /\ loop /\ game # NoGame) ]_vars

\* the host starts a second game after a reset, and the timer of the first
\* start is the one that runs
C32_StartedAgain ==
    /\ "made" \in DOMAIN lastEvent
    /\ lastEvent.made = 0
    /\ loop
    /\ game # NoGame
    /\ lobby.started

\* C33: circleRectCollide answers true exactly when some point of the closed
\* rectangle is within distance cr of the centre of the circle, a point at
\* distance cr included.  (The point of the rectangle nearest to a centre
\* with integer coordinates has integer coordinates, so the points with
\* integer coordinates decide.)
C33_OverlapTest ==
    lastEvent.t = "overlap" =>
        ( lastEvent.hit <=>
          \E px \in lastEvent.rx..(lastEvent.rx + lastEvent.rw),
             py \in lastEvent.ry..(lastEvent.ry + lastEvent.rh) :
              (lastEvent.cx - px) * (lastEvent.cx - px)
                + (lastEvent.cy - py) * (lastEvent.cy - py) <= lastEvent.cr * lastEvent.cr )

\* a circle that only touches a side of the rectangle from outside overlaps it
C33_Touching ==
    /\ lastEvent.t = "overlap"
    /\ lastEvent.hit
    /\ lastEvent.cr > 0
    /\ lastEvent.rw > 0 /\ lastEvent.rh > 0
    /\ lastEvent.cx = lastEvent.rx + lastEvent.rw + lastEvent.cr
    /\ lastEvent.cy \in lastEvent.ry..(lastEvent.ry + lastEvent.rh)

\* the separation normal resolveCircleRect takes for circle p and wall w
\* (src/server.js:573-578), not normalised
NormalX(p, w) == p.x - clamp(p.x, w.x, w.x + w.w)
NormalY(p, w) ==
    IF p.x = clamp(p.x, w.x, w.x + w.w) /\ p.y = clamp(p.y, w.y, w.y + w.h) THEN -1
    ELSE p.y - clamp(p.y, w.y, w.y + w.h)

\* the velocity of q along the normal of p and w: positive is away from w
Along(p, w, q) == q.vx * NormalX(p, w) + q.vy * NormalY(p, w)

RECURSIVE TurnedBack(_, _, _)
\* in the wall loop of p from wall i on (src/server.js:804-806), some response
\* takes a circle that moves away from the wall and leaves it moving toward it
TurnedBack(p, walls, i) ==
    IF i > Len(walls) THEN FALSE
    ELSE IF circleRectCollide(p.x, p.y, p.r, walls[i].x, walls[i].y, walls[i].w, walls[i].h)
    THEN \/ /\ Along(p, walls[i], p) > 0
            /\ Along(p, walls[i], resolveCircleRect(p, walls[i])) < 0
         \/ TurnedBack(resolveCircleRect(p, walls[i]), walls, i + 1)
    ELSE TurnedBack(p, walls, i + 1)

\* player pid of g as the next step brings it to the wall loop
\* (src/server.js:781-802)
AtWalls(g, pid) ==
    clampSpeed(Integrate(Timers(Respawned(g, g.players[pid]), MaxSliceMs), MaxSliceMs,
                         FrictionPow(MaxSliceMs)), MaxSpeed)

\* C34: in the wall loop of a resolving step, a circle that overlaps a wall
\* while it moves away from it is not turned back toward that wall by the
\* collision response.
C34_AwayFromWall ==
    (game # NoGame /\ game.phase = "play" /\ game.turnState = "resolving")
    => \A pid \in DOMAIN game.players :
           NaNSpeed(game.players[pid]) \/ ~TurnedBack(AtWalls(game, pid), game.walls, 1)

\* C35: while a Game exists its turnOrder is not empty (so no end of turn
\* runs on an empty one), turnIndex is an index of turnOrder (counted from
\* 0), and activeId is the id at that index.
C35_DerivedActive ==
    game # NoGame =>
        /\ Len(game.turnOrder) > 0
        /\ game.turnIndex \in 0..(Len(game.turnOrder) - 1)
        /\ game.activeId = game.turnOrder[game.turnIndex + 1]

\* player 2 left while its own flick was resolving: the index 1 it had is
\* wrapped to 0, and player 1 is the active player
C35_IndexWrapped ==
    /\ game # NoGame
    /\ lastEvent.t = "close" /\ lastEvent.pid = 2
    /\ game.turnState = "resolving"
    /\ game.launcher = 2
    /\ game.turnOrder = << 1 >>
    /\ game.turnIndex = 0
    /\ game.activeId = 1

\* C36: while a Game exists the keys of players are exactly the ids of
\* turnOrder, and no id is in turnOrder twice.
C36_RosterConsistent ==
    game # NoGame =>
        /\ DOMAIN game.players = { game.turnOrder[i] : i \in 1..Len(game.turnOrder) }
        /\ \A i, j \in 1..Len(game.turnOrder) :
               game.turnOrder[i] = game.turnOrder[j] => i = j

\* a connection has joined the room while the second round of the Game is
\* played; it has no player in that Game
C36_JoinedMidGame ==
    /\ game # NoGame
    /\ game.round = 2
    /\ lastEvent.t = "join" /\ ~lastEvent.err
    /\ lastEvent.pid \notin DOMAIN game.players
    /\ Len(clients) = 2

\* C37: a timer step passes the turn from a player to another one only when
\* that player has had its aim phase: its clock ran out while it aimed, or
\* the flick that has resolved is its own.  (A player made active by the
\* disconnect of the active player is to aim before the turn moves on.)
C37_NextPlayerAims ==
    [][ ( /\ lastEvent'.t = "tick"
          /\ game # NoGame /\ game' # NoGame
          /\ game'.round = game.round
          /\ Len(game.turnOrder) >= 2
          /\ game'.activeId # game.activeId )
        => \/ game.turnState = "aim"
           \/ game.launcher = game.activeId ]_vars

\* C38: when the connection of a player other than the active one closes
\* during a running Game, activeId, turnState and turnMsLeft are as they
\* were: the current player keeps its turn.
C38_TurnKept ==
    [][ ( /\ lastEvent'.t = "close"
          /\ game # NoGame /\ game' # NoGame
          /\ lastEvent'.pid \in DOMAIN game.players
          /\ lastEvent'.pid # game.activeId )
        => /\ game'.activeId = game.activeId
           /\ game'.turnState = game.turnState
           /\ game'.turnMsLeft = game.turnMsLeft ]_vars

\* C39: in every room with at least one connected client, hostId is the id
\* mapped to one of the connected clients, after any sequence of joins
\* (a repeated join on one connection included) and closes.
C39_HostConnected ==
    (roomExists /\ Len(clients) > 0)
        => \E i \in 1..Len(clients) : clients[i].pid = hostId

\* C40: in boss mode every player has 0 <= hp <= hpMax and 0 <= lives <= 3,
\* and no player is left with hp = 0 while it has lives: damage that brings
\* hp to 0 costs one life and refills hp to hpMax.
C40_LifeAccounting ==
    game # NoGame
        => \A pid \in DOMAIN game.players :
              LET p == game.players[pid]
              IN  /\ 0 <= p.hp /\ p.hp <= p.hpMax
                  /\ 0 <= p.lives /\ p.lives <= 3
                  /\ ~(p.hp = 0 /\ p.lives > 0)

====
